---- MODULE Spec2Model ----
(***************************************************************************)
(* ZeroLeak Mail: the email ingestion and alias-lifecycle engine.          *)
(*                                                                         *)
(* The persistence store (Alias, EmailMessage, RelayEvent, AuditLog,       *)
(* BreachCheck tables), the inbound webhook, the kill / replace handlers   *)
(* and the breach sweep are modelled from the route handlers; the spam and *)
(* breach scoring functions from the service classes.                      *)
(*                                                                         *)
(* Spam scores are kept in tenths of a point (5.0 is 50): every weight in  *)
(* the source is a multiple of 0.5, so the floating point sums are exact.  *)
(***************************************************************************)
EXTENDS Integers, Sequences, FiniteSets, Bags, TLC

VARIABLES
    aliases,       \* Alias table: sequence of rows, the row index is the id
    emails,        \* EmailMessage table: bag of rows
    relayEvents,   \* RelayEvent table: bag of rows
    auditLogs,     \* AuditLog table: bag of rows
    breachChecks,  \* BreachCheck table: bag of rows
    outbox,        \* provider sends dispatched by EmailForwarder.forward: bag
    now,           \* wall clock, in hours
    reqs,          \* requests in flight: slot -> locals of the handler
    served,        \* number of events (requests, clock ticks) accepted so far
    mailIn,        \* scoring check: the mail handed to SpamDetector.analyze
    analysisOut,   \* scoring check: its result
    breachesIn,    \* severity check: the breach list handed to BreachMonitor
    severityOut,   \* severity check: the result of calculateSeverity
    rateLimits     \* security-scanner's module-level map: identifier -> record

vars == <<aliases, emails, relayEvents, auditLogs, breachChecks, outbox, now,
          reqs, served, mailIn, analysisOut, breachesIn, severityOut, rateLimits>>

storeVars == <<aliases, emails, relayEvents, auditLogs, breachChecks, outbox>>
pureVars == <<mailIn, analysisOut, breachesIn, severityOut, rateLimits>>

\* new Map(): no identifier has a record
NoRateLimits == [identifier \in {} |-> [count |-> 0, resetAt |-> 0]]

None == "none"    \* a null string column or field
NoId == 0         \* a null id (ids start at 1)
NoToken == 0      \* a null decoy token
Never == -1       \* a null timestamp

Max(a, b) == IF a >= b THEN a ELSE b

(***************************************************************************)
(* Strings, as sequences of characters, for the two string operations the  *)
(* severity score uses: toLowerCase and includes.                          *)
(***************************************************************************)
UpperChars == <<"A","B","C","D","E","F","G","H","I","J","K","L","M",
                "N","O","P","Q","R","S","T","U","V","W","X","Y","Z">>
LowerChars == <<"a","b","c","d","e","f","g","h","i","j","k","l","m",
                "n","o","p","q","r","s","t","u","v","w","x","y","z">>

ToLowerChar(c) ==
    IF \E i \in 1..Len(UpperChars) : UpperChars[i] = c
    THEN LowerChars[CHOOSE i \in 1..Len(UpperChars) : UpperChars[i] = c]
    ELSE c

ToLowerCase(s) == [i \in 1..Len(s) |-> ToLowerChar(s[i])]

Includes(hay, needle) ==
    \E i \in 1..(Len(hay) - Len(needle) + 1) :
        SubSeq(hay, i, i + Len(needle) - 1) = needle

StrPasswords == <<"P","a","s","s","w","o","r","d","s">>
StrCreditCards == <<"C","r","e","d","i","t"," ","c","a","r","d","s">>
StrSocialSecurityNumbers ==
    <<"S","o","c","i","a","l"," ","s","e","c","u","r","i","t","y"," ",
      "n","u","m","b","e","r","s">>
StrFinancialInformation ==
    <<"F","i","n","a","n","c","i","a","l"," ","i","n","f","o","r","m","a","t","i","o","n">>

\* data classes a breach record may carry (HaveIBeenPwned's vocabulary)
StrEmailAddresses == <<"E","m","a","i","l"," ","a","d","d","r","e","s","s","e","s">>
StrHistoricalPasswords ==
    <<"H","i","s","t","o","r","i","c","a","l"," ","p","a","s","s","w","o","r","d","s">>
StrPartialCreditCardData ==
    <<"P","a","r","t","i","a","l"," ","c","r","e","d","i","t"," ","c","a","r","d"," ",
      "d","a","t","a">>
StrUpperPasswords == <<"P","A","S","S","W","O","R","D","S">>

(***************************************************************************)
(* BreachMonitor: kill eligibility and severity of a breach list.          *)
(***************************************************************************)
sensitiveClasses ==
    <<StrPasswords, StrCreditCards, StrSocialSecurityNumbers, StrFinancialInformation>>

hasSensitiveData(breach) ==
    \E i \in 1..Len(breach.dataClasses) :
        \E j \in 1..Len(sensitiveClasses) :
            Includes(ToLowerCase(breach.dataClasses[i]), ToLowerCase(sensitiveClasses[j]))

VerifiedWeightMutant(breach) == IF breach.isVerified THEN 3 ELSE 0

VerifiedWeight(breach) == IF breach.isVerified THEN 2 ELSE 0

\* one pass of the loop body of calculateSeverity: the score after this breach
SeverityStep(score, breach) ==
    LET s1 == score + 1
        s2 == s1 + VerifiedWeight(breach)
        s3 == IF breach.isSensitive THEN s2 + 3 ELSE s2
        s4 == IF hasSensitiveData(breach) THEN s3 + 2 ELSE s3
    IN  IF breach.isSpamList \/ breach.isFabricated THEN s4 - 1 ELSE s4

RECURSIVE SeverityLoop(_, _, _)
SeverityLoop(breaches, i, score) ==
    IF i > Len(breaches) THEN score
    ELSE SeverityLoop(breaches, i + 1, SeverityStep(score, breaches[i]))

calculateSeverity(breaches) ==
    IF Len(breaches) = 0 THEN 0 ELSE Max(0, SeverityLoop(breaches, 1, 0))

shouldKillAlias(breaches) ==
    \E i \in 1..Len(breaches) :
        breaches[i].isVerified /\ ~breaches[i].isFabricated /\ ~breaches[i].isRetired

(***************************************************************************)
(* SpamDetector.  A mail is described by what the detector's patterns find *)
(* in it: which keyword patterns match the content, whether the caps ratio *)
(* exceeds 0.5, and so on.                                                 *)
(***************************************************************************)
SPAM_THRESHOLD == 50

\* weights of SPAM_KEYWORDS, in the order of the source
SPAM_KEYWORDS == <<20, 15, 10, 30, 15, 15, 15, 10>>

RECURSIVE KeywordLoop(_, _, _)
KeywordLoop(matched, i, score) ==
    IF i > Len(SPAM_KEYWORDS) THEN score
    ELSE KeywordLoop(matched, i + 1,
                     IF i \in matched THEN score + SPAM_KEYWORDS[i] ELSE score)

analyzeContent(email) ==
    LET s1 == KeywordLoop(email.keywords, 1, 0)
        s2 == IF email.capsRatioHigh THEN s1 + 10 ELSE s1
    IN  IF email.manyExclamations THEN s2 + 5 ELSE s2

analyzeSender(email) == IF email.suspiciousSender THEN 10 ELSE 0

analyzeSubject(email) ==
    IF ~email.hasSubject THEN 0
    ELSE (IF email.subjectAllCaps THEN 10 ELSE 0)
         + (IF email.subjectBareReFw THEN 5 ELSE 0)

analyzeLinks(email) ==
    IF ~email.hasHtml THEN 0
    ELSE IF email.manyLinks THEN 15 ELSE 0

analyzeHeaders(email) ==
    IF ~email.hasHeaders THEN 0
    ELSE (IF email.xSpamStatusYes THEN 20 ELSE 0)
         + (IF email.returnPathMismatch THEN 10 ELSE 0)

IsSpamScoreMutant(score) == score > SPAM_THRESHOLD

IsSpamScore(score) == score >= SPAM_THRESHOLD

analyze(email) ==
    LET score == analyzeContent(email)
                 + analyzeSender(email)
                 + analyzeSubject(email)
                 + (IF email.hasHtml /\ ~email.hasText THEN 5 ELSE 0)
                 + analyzeLinks(email)
                 + analyzeHeaders(email)
    IN  [isSpam |-> IsSpamScore(score), score |-> score]

shouldQuarantine(score) == 2 * score >= SPAM_THRESHOLD * 3

shouldBlock(score) == score >= SPAM_THRESHOLD * 2

(***************************************************************************)
(* The persistence store.  db is the record of the six tables; a handler   *)
(* step maps a store and the handler's locals to the next store and        *)
(* locals.  Rows carry the columns the handlers read or write.             *)
(***************************************************************************)
DB == [aliases |-> aliases, emails |-> emails, relayEvents |-> relayEvents,
       auditLogs |-> auditLogs, breachChecks |-> breachChecks, outbox |-> outbox]

SetDBInit(db) ==
    /\ aliases = db.aliases
    /\ emails = db.emails
    /\ relayEvents = db.relayEvents
    /\ auditLogs = db.auditLogs
    /\ breachChecks = db.breachChecks
    /\ outbox = db.outbox

SetDB(db) ==
    /\ aliases' = db.aliases
    /\ emails' = db.emails
    /\ relayEvents' = db.relayEvents
    /\ auditLogs' = db.auditLogs
    /\ breachChecks' = db.breachChecks
    /\ outbox' = db.outbox

Row(r) == SetToBag({r})

AliasIds(db) == 1..Len(db.aliases)

\* prisma.alias.findUnique({ where: { localPart_domain } }): the id, or NoId
findAliasByAddressMutant(db, localPart) == IF Len(db.aliases) > 0 THEN 1 ELSE NoId

findAliasByAddress(db, localPart) ==
    IF \E id \in AliasIds(db) : db.aliases[id].localPart = localPart
    THEN CHOOSE id \in AliasIds(db) : db.aliases[id].localPart = localPart
    ELSE NoId

createRelayEvent(db, aliasId, type, meta) ==
    [db EXCEPT !.relayEvents = @ (+) Row([aliasId |-> aliasId, type |-> type, meta |-> meta])]

createAuditLogMutant(db, action, resource, reason) ==
    [db EXCEPT !.auditLogs =
        Row([action |-> action, resource |-> resource, reason |-> reason])]

createAuditLog(db, action, resource, reason) ==
    [db EXCEPT !.auditLogs =
        @ (+) Row([action |-> action, resource |-> resource, reason |-> reason])]

(***************************************************************************)
(* Requests.  A request's locals carry pc, the await it will execute next; *)
(* a finished request keeps its input and the response it returned.        *)
(***************************************************************************)
Finished(kind, input, result) ==
    [kind |-> kind, pc |-> "done", input |-> input, result |-> result]

Idle == Finished("idle", None, None)

\* outcome of the external call a step makes, when it makes one
NoLookup == [throws |-> FALSE, breaches |-> <<>>]
NoExt == [send |-> "sent", lookup |-> NoLookup, probe |-> FALSE, storeFails |-> FALSE]

(***************************************************************************)
(* POST /api/webhooks/email: processIncomingEmail.                         *)
(***************************************************************************)
AUTO_KILL_SPAM_COUNT == 10

NewWebhook(email) ==
    [kind |-> "webhook", pc |-> "find", email |-> email, aliasId |-> NoId,
     alias |-> None, score |-> 0, isSpam |-> FALSE, decoyDetected |-> FALSE,
     emailStatus |-> "PENDING", shouldForward |-> TRUE, emailMessage |-> None,
     forwardSuccess |-> "unset"]

toLowerCaseStatus(status) ==
    CASE status = "PENDING" -> "pending"
      [] status = "DELIVERED" -> "delivered"
      [] status = "FAILED" -> "failed"
      [] status = "SPAM" -> "spam"
      [] status = "QUARANTINED" -> "quarantined"

\* the value returned at the end of processIncomingEmail
WebhookReturn(l) ==
    Finished("webhook", l.email,
             [status |-> toLowerCaseStatus(l.emailStatus),
              spamScore |-> l.score,
              forwarded |-> l.shouldForward /\ l.forwardSuccess = "true",
              decoyDetected |-> l.decoyDetected])

\* POST's catch: a throw inside processIncomingEmail becomes a 500
WebhookError(l) ==
    Finished("webhook", l.email, [status |-> "error", reason |-> "Failed to process email"])

decoyMatch(alias, email) ==
    /\ alias.decoySeeded
    /\ alias.decoyToken # NoToken
    /\ alias.decoyToken \in email.bodyTokens

autoKillDue(alias) == alias.spamCount + 1 >= AUTO_KILL_SPAM_COUNT

\* the status branch taken on the spam score, up to the next await
SpamBranch(l) ==
    IF shouldBlock(l.score)
    THEN [l EXCEPT !.emailStatus = "SPAM", !.shouldForward = FALSE, !.pc = "spamIncrement"]
    ELSE IF shouldQuarantine(l.score)
    THEN [l EXCEPT !.emailStatus = "QUARANTINED", !.shouldForward = FALSE,
                   !.pc = "emailCreate"]
    ELSE IF l.isSpam
    THEN [l EXCEPT !.emailStatus = "SPAM", !.shouldForward = FALSE, !.pc = "emailCreate"]
    ELSE [l EXCEPT !.pc = "emailCreate"]

aliasNotActiveMutant(alias) == alias.status = "KILLED"

aliasNotActiveSpammed(alias) == alias.status # "ACTIVE" \/ alias.spamCount > 0

aliasNotActive(alias) == alias.status # "ACTIVE"

\* the code between the alias lookup and the next await
AfterFind(db, l) ==
    LET id == findAliasByAddress(db, l.email.to)
    IN  IF id = NoId
        THEN Finished("webhook", l.email,
                      [status |-> "rejected", reason |-> "Alias not found"])
        ELSE LET alias == db.aliases[id]
                 spamAnalysis == analyze(l.email)
                 l1 == [l EXCEPT !.aliasId = id, !.alias = alias,
                                 !.score = spamAnalysis.score,
                                 !.isSpam = spamAnalysis.isSpam]
             IN  IF aliasNotActive(alias)
                 THEN [l1 EXCEPT !.pc = "blockedEvent"]
                 ELSE IF decoyMatch(alias, l.email)
                 THEN [l1 EXCEPT !.decoyDetected = TRUE, !.pc = "leakUpdate"]
                 ELSE SpamBranch(l1)

shouldDispatchMutant(l) == l.alias.forwardTo # None

shouldDispatch(l) == l.shouldForward /\ l.alias.forwardTo # None

NewEmailMessage(l) ==
    [aliasId |-> l.aliasId, messageId |-> l.email.messageId, spamScore |-> l.score,
     isSpam |-> l.isSpam, status |-> l.emailStatus, forwardedTo |-> None,
     errorMessage |-> None, read |-> FALSE]

updateEmailMessageMutant(db, old, new) == db

updateEmailMessageRenamed(db, old, new) ==
    [db EXCEPT !.emails = (@ (-) Row(old)) (+) Row([new EXCEPT !.messageId = "rewritten"])]

updateEmailMessage(db, old, new) ==
    [db EXCEPT !.emails = (@ (-) Row(old)) (+) Row(new)]

WebhookStep(db, l, ext) ==
    CASE l.pc = "find" ->
            [db |-> db, l |-> AfterFind(db, l)]
      [] l.pc = "blockedEvent" ->
            [db |-> createRelayEvent(db, l.aliasId, "BLOCKED", "alias_status"),
             l |-> Finished("webhook", l.email,
                            [status |-> "blocked", reason |-> l.alias.status])]
      [] l.pc = "leakUpdate" ->
            [db |-> [db EXCEPT !.aliases[l.aliasId].status = "LEAKED",
                        !.aliases[l.aliasId].breachDetected = TRUE],
             l |-> [l EXCEPT !.pc = "leakEvent"]]
      [] l.pc = "leakEvent" ->
            [db |-> createRelayEvent(db, l.aliasId, "LEAK_DETECTED", "decoy_in_mail"),
             l |-> [l EXCEPT !.pc = "leakAudit"]]
      [] l.pc = "leakAudit" ->
            IF ext.storeFails THEN [db |-> db, l |-> WebhookError(l)]
            ELSE
            [db |-> createAuditLog(db, "LEAK_DETECTED", l.aliasId, "decoy_in_mail"),
             l |-> SpamBranch(l)]
      [] l.pc = "spamIncrement" ->
            [db |-> [db EXCEPT !.aliases[l.aliasId].spamCount = @ + 1],
             l |-> [l EXCEPT !.pc = IF autoKillDue(l.alias) THEN "killUpdate"
                                    ELSE "emailCreate"]]
      [] l.pc = "killUpdate" ->
            [db |-> [db EXCEPT !.aliases[l.aliasId].status = "KILLED"],
             l |-> [l EXCEPT !.pc = "killAudit"]]
      [] l.pc = "killAudit" ->
            IF ext.storeFails THEN [db |-> db, l |-> WebhookError(l)]
            ELSE
            [db |-> createAuditLog(db, "ALIAS_AUTO_KILLED", l.aliasId, "Excessive spam"),
             l |-> [l EXCEPT !.pc = "emailCreate"]]
      [] l.pc = "emailCreate" ->
            [db |-> [db EXCEPT !.emails = @ (+) Row(NewEmailMessage(l))],
             l |-> [l EXCEPT !.emailMessage = NewEmailMessage(l), !.pc = "receivedEvent"]]
      [] l.pc = "receivedEvent" ->
            [db |-> createRelayEvent(db, l.aliasId,
                        IF l.isSpam THEN "SPAM_DETECTED" ELSE "RECEIVED", "inbound"),
             l |-> IF shouldDispatch(l) THEN [l EXCEPT !.pc = "forward"]
                   ELSE WebhookReturn(l)]
      [] l.pc = "forward" ->
            [db |-> [db EXCEPT !.outbox =
                        @ (+) Row([to |-> l.alias.forwardTo, aliasId |-> l.aliasId,
                                   messageId |-> l.email.messageId, outcome |-> ext.send])],
             l |-> CASE ext.send = "sent" ->
                            [l EXCEPT !.forwardSuccess = "true", !.pc = "markDelivered"]
                     [] ext.send = "failed" ->
                            [l EXCEPT !.forwardSuccess = "false", !.pc = "markFailed"]
                     [] ext.send = "throws" ->
                            [l EXCEPT !.pc = "markFailedCatch"]]
      [] l.pc = "markDelivered" ->
            LET new == [l.emailMessage EXCEPT !.status = "DELIVERED",
                                              !.forwardedTo = l.alias.forwardTo]
            IN  [db |-> updateEmailMessage(db, l.emailMessage, new),
                 l |-> [l EXCEPT !.emailMessage = new, !.pc = "forwardedEvent"]]
      [] l.pc = "forwardedEvent" ->
            [db |-> createRelayEvent(db, l.aliasId, "FORWARDED", "provider"),
             l |-> WebhookReturn([l EXCEPT !.emailStatus = "DELIVERED"])]
      [] l.pc = "markFailed" ->
            LET new == [l.emailMessage EXCEPT !.status = "FAILED",
                                              !.errorMessage = "provider_error"]
            IN  [db |-> updateEmailMessage(db, l.emailMessage, new),
                 l |-> WebhookReturn([l EXCEPT !.emailStatus = "FAILED"])]
      [] l.pc = "markFailedCatch" ->
            LET new == [l.emailMessage EXCEPT !.status = "FAILED",
                                              !.errorMessage = "exception_message"]
            IN  [db |-> updateEmailMessage(db, l.emailMessage, new),
                 l |-> WebhookReturn(l)]

(***************************************************************************)
(* Alias rows.  All aliases belong to the one signed-in user and live on   *)
(* the one relay domain; a decoy token is a fresh random value, modelled   *)
(* by the id of the row it is generated for.                               *)
(***************************************************************************)
UserEmail == "user@real.example"

NewAliasRowMutant(localPart, enableDecoy, token, forwardTo, replacesId) ==
    [localPart |-> localPart, status |-> "ACTIVE", spamCount |-> 0,
     breachDetected |-> FALSE, decoySeeded |-> enableDecoy,
     decoyToken |-> IF enableDecoy THEN token ELSE NoToken,
     forwardTo |-> forwardTo, lastBreachCheck |-> Never,
     replacesId |-> NoId, replacedById |-> NoId]

NewAliasRow(localPart, enableDecoy, token, forwardTo, replacesId) ==
    [localPart |-> localPart, status |-> "ACTIVE", spamCount |-> 0,
     breachDetected |-> FALSE, decoySeeded |-> enableDecoy,
     decoyToken |-> IF enableDecoy THEN token ELSE NoToken,
     forwardTo |-> forwardTo, lastBreachCheck |-> Never,
     replacesId |-> replacesId, replacedById |-> NoId]

\* prisma.alias.create: the unique (localPart, domain) index rejects a duplicate
uniqueLocalPart(db, localPart) == findAliasByAddress(db, localPart) = NoId

createAlias(db, row) == [db EXCEPT !.aliases = Append(@, row)]

(***************************************************************************)
(* POST /api/alias: create an alias.                                       *)
(***************************************************************************)
NewCreate(input) ==
    [kind |-> "create", pc |-> "findExisting", input |-> input, id |-> NoId]

CreateStep(db, l, ext) ==
    CASE l.pc = "findExisting" ->
            [db |-> db,
             l |-> IF findAliasByAddress(db, l.input.localPart) # NoId
                   THEN Finished("create", l.input, [status |-> 409, id |-> NoId])
                   ELSE [l EXCEPT !.pc = "create"]]
      [] l.pc = "create" ->
            IF uniqueLocalPart(db, l.input.localPart)
            THEN [db |-> createAlias(db, NewAliasRow(l.input.localPart, l.input.enableDecoy,
                                                     Len(db.aliases) + 1, UserEmail, NoId)),
                  l |-> [l EXCEPT !.id = Len(db.aliases) + 1, !.pc = "audit"]]
            ELSE [db |-> db, l |-> Finished("create", l.input, [status |-> 500, id |-> NoId])]
      [] l.pc = "audit" ->
            [db |-> createAuditLog(db, "alias.created", l.id, "user_requested"),
             l |-> Finished("create", l.input, [status |-> 201, id |-> l.id])]

(***************************************************************************)
(* POST /api/alias/kill.                                                   *)
(***************************************************************************)
NewKill(aliasId) == [kind |-> "kill", pc |-> "find", input |-> aliasId]

KillStep(db, l, ext) ==
    CASE l.pc = "find" ->
            [db |-> db,
             l |-> IF l.input \in AliasIds(db)
                   THEN [l EXCEPT !.pc = "update"]
                   ELSE Finished("kill", l.input, [status |-> 404, aliasStatus |-> None])]
      [] l.pc = "update" ->
            [db |-> [db EXCEPT !.aliases[l.input].status = "KILLED"],
             l |-> [l EXCEPT !.pc = "relayEvent"]]
      [] l.pc = "relayEvent" ->
            [db |-> createRelayEvent(db, l.input, "BLOCKED", "alias_killed"),
             l |-> [l EXCEPT !.pc = "audit"]]
      [] l.pc = "audit" ->
            IF ext.storeFails
            THEN [db |-> db,
                  l |-> Finished("kill", l.input, [status |-> 500, aliasStatus |-> None])]
            ELSE
            [db |-> createAuditLog(db, "alias.killed", l.input, "user_requested"),
             l |-> Finished("kill", l.input, [status |-> 200, aliasStatus |-> "KILLED"])]

(***************************************************************************)
(* POST /api/alias/replace.                                                *)
(***************************************************************************)
NewReplace(input) ==
    [kind |-> "replace", pc |-> "find", input |-> input, oldAlias |-> None, newId |-> NoId]

replaceAllowedMutant(oldAlias) == TRUE

replaceAllowed(oldAlias) == ~(oldAlias.status = "ACTIVE" /\ ~oldAlias.breachDetected)

replacedStatusMutant(oldAlias) == oldAlias.status

replacedStatusKilled(oldAlias) == "KILLED"

\* the status written to the old alias, from the row read at the start
replacedStatus(oldAlias) ==
    IF oldAlias.status = "ACTIVE" THEN "KILLED" ELSE oldAlias.status

ReplaceReturn(l, status) ==
    Finished("replace", l.input,
             [status |-> status, newId |-> IF status = 200 THEN l.newId ELSE NoId,
              oldStatus |-> IF status = 200 THEN l.oldAlias.status ELSE None])

ReplaceStep(db, l, ext) ==
    CASE l.pc = "find" ->
            [db |-> db,
             l |-> IF l.input.oldAliasId \notin AliasIds(db)
                   THEN ReplaceReturn(l, 404)
                   ELSE IF ~replaceAllowed(db.aliases[l.input.oldAliasId])
                   THEN ReplaceReturn(l, 400)
                   ELSE [l EXCEPT !.oldAlias = db.aliases[l.input.oldAliasId],
                                  !.pc = "create"]]
      [] l.pc = "create" ->
            IF uniqueLocalPart(db, l.input.localPart)
            THEN [db |-> createAlias(db,
                            NewAliasRow(l.input.localPart, l.input.enableDecoy,
                                        Len(db.aliases) + 1,
                                        IF l.oldAlias.forwardTo # None
                                        THEN l.oldAlias.forwardTo ELSE UserEmail,
                                        l.input.oldAliasId)),
                  l |-> [l EXCEPT !.newId = Len(db.aliases) + 1, !.pc = "updateOld"]]
            ELSE [db |-> db, l |-> ReplaceReturn(l, 500)]
      [] l.pc = "updateOld" ->
            [db |-> [db EXCEPT !.aliases[l.input.oldAliasId].replacedById = l.newId,
                        !.aliases[l.input.oldAliasId].status = replacedStatus(l.oldAlias)],
             l |-> [l EXCEPT !.pc = "audit"]]
      [] l.pc = "audit" ->
            IF ext.storeFails THEN [db |-> db, l |-> ReplaceReturn(l, 500)]
            ELSE
            [db |-> createAuditLog(db, "ALIAS_REPLACED", l.input.oldAliasId,
                        IF l.oldAlias.breachDetected THEN "breach_detected"
                        ELSE "user_requested"),
             l |-> ReplaceReturn(l, 200)]

(***************************************************************************)
(* GET /api/cron/breach-check: the breach sweep.                           *)
(***************************************************************************)
HOURS_BETWEEN_CHECKS == 24
SWEEP_TAKE == 50
AUTO_KILL_SEVERITY == 5

NoResults == [checked |-> 0, breachesFound |-> 0, aliasesKilled |-> 0, errors |-> 0]

NewSweep ==
    [kind |-> "sweep", pc |-> "select", batch |-> <<>>, i |-> 1, breaches |-> <<>>,
     j |-> 1, results |-> NoResults, calls |-> <<>>]

\* what the run does towards the breach service, in order: a fetch by
\* checkEmail ("lookup") or checkDecoyToken ("probe"), or the 1.6 s timer
Call(call, id, failed) == [call |-> call, id |-> id, failed |-> failed]

sweepDueLate(alias, clock) ==
    /\ alias.status = "ACTIVE"
    /\ \/ alias.lastBreachCheck = Never
       \/ alias.lastBreachCheck <= clock - HOURS_BETWEEN_CHECKS

sweepDueMutant(alias, clock) ==
    \/ alias.lastBreachCheck = Never
    \/ alias.lastBreachCheck < clock - HOURS_BETWEEN_CHECKS

\* where: status ACTIVE and lastBreachCheck null or older than the threshold
sweepDue(alias, clock) ==
    /\ alias.status = "ACTIVE"
    /\ \/ alias.lastBreachCheck = Never
       \/ alias.lastBreachCheck < clock - HOURS_BETWEEN_CHECKS

RECURSIVE selectFrom(_, _, _, _)
selectFrom(db, clock, id, taken) ==
    IF id > Len(db.aliases) \/ Len(taken) >= SWEEP_TAKE THEN taken
    ELSE selectFrom(db, clock, id + 1,
                    IF sweepDue(db.aliases[id], clock)
                    THEN Append(taken, [id |-> id, row |-> db.aliases[id]])
                    ELSE taken)

\* prisma.alias.findMany({ where, take: 50 }); rows come back in id order
selectBatch(db, clock) == selectFrom(db, clock, 1, <<>>)

breachKillMutant(breaches) ==
    shouldKillAlias(breaches) \/ calculateSeverity(breaches) >= AUTO_KILL_SEVERITY

breachKill(breaches) ==
    shouldKillAlias(breaches) /\ calculateSeverity(breaches) >= AUTO_KILL_SEVERITY

\* top of the for loop: the next alias of the batch, or the response
SweepIter(l) ==
    IF l.i > Len(l.batch)
    THEN Finished("sweep", None, [success |-> TRUE, results |-> l.results])
         @@ [calls |-> l.calls]
    ELSE [l EXCEPT !.pc = "lookup", !.breaches = <<>>, !.j = 1]

\* the decoy-token check that follows the breach branch
DecoyGate(l) ==
    LET alias == l.batch[l.i].row
    IN  IF alias.decoySeeded /\ alias.decoyToken # NoToken
        THEN [l EXCEPT !.pc = "probe"]
        ELSE [l EXCEPT !.pc = "sleep"]

\* the awaits of the loop body that write to the database
StoreSteps ==
    {"updateCheck", "flag", "storeBreach", "breachLeak", "breachAudit", "breachEvent",
     "advisoryEvent", "decoyLeak", "decoyAudit", "decoyEvent"}

SweepCatchMutant(l) ==
    Finished("sweep", None, [success |-> TRUE,
                             results |-> [l.results EXCEPT !.errors = @ + 1]])
    @@ [calls |-> l.calls]

\* catch (error) { results.errors++ }, then the next alias of the loop
SweepCatch(l) == SweepIter([l EXCEPT !.results.errors = @ + 1, !.i = @ + 1])

SweepStep(db, l, ext, clock) ==
    LET id == IF l.pc = "select" THEN NoId ELSE l.batch[l.i].id
    IN
    IF l.pc \in StoreSteps /\ ext.storeFails THEN [db |-> db, l |-> SweepCatch(l)]
    ELSE
    CASE l.pc = "select" ->
            [db |-> db, l |-> SweepIter([l EXCEPT !.batch = selectBatch(db, clock)])]
      [] l.pc = "lookup" ->
            IF ext.lookup.throws
            THEN [db |-> db,
                  l |-> SweepCatch([l EXCEPT !.calls = Append(@, Call("lookup", id, TRUE))])]
            ELSE [db |-> db, l |-> [l EXCEPT !.breaches = ext.lookup.breaches,
                                       !.calls = Append(@, Call("lookup", id, FALSE)),
                                       !.pc = "updateCheck"]]
      [] l.pc = "updateCheck" ->
            [db |-> [db EXCEPT !.aliases[id].lastBreachCheck = clock],
             l |-> IF Len(l.breaches) > 0
                   THEN [l EXCEPT !.results.checked = @ + 1,
                                  !.results.breachesFound = @ + 1, !.pc = "flag"]
                   ELSE DecoyGate([l EXCEPT !.results.checked = @ + 1])]
      [] l.pc = "flag" ->
            [db |-> [db EXCEPT !.aliases[id].breachDetected = TRUE],
             l |-> [l EXCEPT !.pc = "storeBreach", !.j = 1]]
      [] l.pc = "storeBreach" ->
            [db |-> [db EXCEPT !.breachChecks =
                        @ (+) Row([email |-> id, breachName |-> l.breaches[l.j].name,
                                   verified |-> l.breaches[l.j].isVerified])],
             l |-> IF l.j < Len(l.breaches) THEN [l EXCEPT !.j = @ + 1]
                   ELSE IF breachKill(l.breaches) THEN [l EXCEPT !.pc = "breachLeak"]
                   ELSE [l EXCEPT !.pc = "advisoryEvent"]]
      [] l.pc = "breachLeak" ->
            [db |-> [db EXCEPT !.aliases[id].status = "LEAKED"],
             l |-> [l EXCEPT !.results.aliasesKilled = @ + 1, !.pc = "breachAudit"]]
      [] l.pc = "breachAudit" ->
            [db |-> createAuditLog(db, "ALIAS_AUTO_KILLED", id, "Data breach detected"),
             l |-> [l EXCEPT !.pc = "breachEvent"]]
      [] l.pc = "breachEvent" ->
            [db |-> createRelayEvent(db, id, "LEAK_DETECTED", "breach_monitor"),
             l |-> DecoyGate(l)]
      [] l.pc = "advisoryEvent" ->
            [db |-> createRelayEvent(db, id, "LEAK_DETECTED", "breach_monitor_minor"),
             l |-> DecoyGate(l)]
      [] l.pc = "probe" ->
            [db |-> db,
             l |-> [l EXCEPT !.calls = Append(@, Call("probe", id, FALSE)),
                             !.pc = IF ext.probe THEN "decoyLeak" ELSE "sleep"]]
      [] l.pc = "decoyLeak" ->
            [db |-> [db EXCEPT !.aliases[id].status = "LEAKED",
                        !.aliases[id].breachDetected = TRUE],
             l |-> [l EXCEPT !.results.aliasesKilled = @ + 1, !.pc = "decoyAudit"]]
      [] l.pc = "decoyAudit" ->
            [db |-> createAuditLog(db, "ALIAS_AUTO_KILLED", id, "Decoy token leaked"),
             l |-> [l EXCEPT !.pc = "decoyEvent"]]
      [] l.pc = "decoyEvent" ->
            [db |-> createRelayEvent(db, id, "LEAK_DETECTED", "decoy_token"),
             l |-> [l EXCEPT !.pc = "sleep"]]
      [] l.pc = "sleep" ->
            [db |-> db,
             l |-> SweepIter([l EXCEPT !.i = @ + 1,
                                       !.calls = Append(@, Call("sleep", id, FALSE))])]

(***************************************************************************)
(* Running a handler: one await at a time, or from start to response.      *)
(***************************************************************************)
Step(db, l, ext, clock) ==
    CASE l.kind = "webhook" -> WebhookStep(db, l, ext)
      [] l.kind = "create" -> CreateStep(db, l, ext)
      [] l.kind = "kill" -> KillStep(db, l, ext)
      [] l.kind = "replace" -> ReplaceStep(db, l, ext)
      [] l.kind = "sweep" -> SweepStep(db, l, ext, clock)

\* plan: what the outside world answers during one whole request
ExtAt(l, plan) ==
    IF l.kind = "sweep" /\ l.pc \in {"lookup", "probe"}
    THEN [send |-> plan.send,
          lookup |-> plan.lookup[l.batch[l.i].id],
          probe |-> plan.probe[l.batch[l.i].id], storeFails |-> FALSE]
    ELSE [send |-> plan.send, lookup |-> NoLookup, probe |-> FALSE, storeFails |-> FALSE]

RECURSIVE Run(_, _, _, _)
Run(db, l, plan, clock) ==
    IF l.pc = "done" THEN [db |-> db, l |-> l]
    ELSE LET r == Step(db, l, ExtAt(l, plan), clock)
         IN  Run(r.db, r.l, plan, clock)

(***************************************************************************)
(* Bounds and inputs.                                                      *)
(***************************************************************************)
MaxAliases == 2
MaxRequests == 3
MaxClock == 25
TickHours == 25

\* local parts: alias i was created with local part i, so a request names a
\* local part already taken (1..n) or the next free one (n + 1)
LocalParts(db) == 1..(Len(db.aliases) + 1)
Tokens == 1..MaxAliases
MessageIds == {"m1"}
SendOutcomes == {"sent", "failed", "throws"}

PlainMail ==
    [keywords |-> {}, capsRatioHigh |-> FALSE, manyExclamations |-> FALSE,
     suspiciousSender |-> FALSE, hasSubject |-> TRUE, subjectAllCaps |-> FALSE,
     subjectBareReFw |-> FALSE, hasText |-> TRUE, hasHtml |-> FALSE,
     manyLinks |-> FALSE, hasHeaders |-> TRUE, xSpamStatusYes |-> FALSE,
     returnPathMismatch |-> FALSE]

\* contents scoring 0, 5.0, 7.5 and 10.0
MailContents ==
    {[PlainMail EXCEPT !.keywords = k] : k \in {{}, {1, 4}, {1, 2, 3, 4},
                                                {1, 2, 3, 4, 5, 8}}}

Envelope(content, to, messageId, bodyTokens) ==
    [f \in DOMAIN content \cup {"to", "messageId", "bodyTokens"} |->
        CASE f = "to" -> to
          [] f = "messageId" -> messageId
          [] f = "bodyTokens" -> bodyTokens
          [] OTHER -> content[f]]

InboundEmails(db) ==
    {Envelope(c, to, m, t) : c \in MailContents, to \in LocalParts(db), m \in MessageIds,
                             t \in {{}} \cup {{k} : k \in Tokens}}

CreateInputs(db) == [localPart : LocalParts(db), enableDecoy : BOOLEAN]
ReplaceInputs(db) ==
    [oldAliasId : LocalParts(db), localPart : LocalParts(db), enableDecoy : BOOLEAN]

Breach(name, verified, fabricated, sensitive, retired, spamList, classes) ==
    [name |-> name, isVerified |-> verified, isFabricated |-> fabricated,
     isSensitive |-> sensitive, isRetired |-> retired, isSpamList |-> spamList,
     dataClasses |-> classes]

BreachMajor == Breach("Major", TRUE, FALSE, TRUE, FALSE, FALSE, <<StrPasswords>>)
BreachPlain == Breach("Plain", TRUE, FALSE, FALSE, FALSE, FALSE, <<StrEmailAddresses>>)
BreachRetired == Breach("Retired", TRUE, FALSE, TRUE, TRUE, FALSE, <<StrPasswords>>)
BreachFabricated == Breach("Fabricated", FALSE, TRUE, FALSE, FALSE, FALSE, <<>>)
BreachMinor == Breach("Minor", FALSE, FALSE, FALSE, FALSE, FALSE, <<StrEmailAddresses>>)

\* what BreachMonitor.checkEmail answers: it throws, or returns a breach list
BreachLists ==
    {<<>>, <<BreachMajor>>, <<BreachPlain>>, <<BreachRetired>>,
     <<BreachFabricated, BreachMinor>>}

LookupOutcomes ==
    {[throws |-> TRUE, breaches |-> <<>>]}
    \cup {[throws |-> FALSE, breaches |-> b] : b \in BreachLists}

DueIds(db, clock) == {selectBatch(db, clock)[k].id : k \in 1..Len(selectBatch(db, clock))}

SweepPlans(db, clock) ==
    [send : {"sent"}, lookup : [DueIds(db, clock) -> LookupOutcomes],
     probe : [DueIds(db, clock) -> BOOLEAN]]

SendPlan(send) == [send |-> send, lookup |-> <<>>, probe |-> <<>>]

(***************************************************************************)
(* Spec: requests are served one at a time, each handler from its first    *)
(* line to its response, so no request is ever in flight between steps.    *)
(***************************************************************************)
NoAnalysis ==
    [done |-> FALSE, isSpam |-> FALSE, score |-> 0, quarantine |-> FALSE, block |-> FALSE]

EmptyDB ==
    [aliases |-> <<>>, emails |-> EmptyBag, relayEvents |-> EmptyBag,
     auditLogs |-> EmptyBag, breachChecks |-> EmptyBag, outbox |-> EmptyBag]

InitStore ==
    /\ SetDBInit(EmptyDB)
    /\ now = 0

InitPure ==
    /\ mailIn = PlainMail
    /\ analysisOut = NoAnalysis
    /\ breachesIn = <<>>
    /\ severityOut = Never
    /\ rateLimits = NoRateLimits

Init ==
    /\ InitStore
    /\ InitPure
    /\ reqs = <<>>
    /\ served = 0

Serve(l, plan) ==
    LET r == Run(DB, l, plan, now)
    IN  /\ SetDB(r.db)
        /\ UNCHANGED reqs

Accept ==
    /\ served < MaxRequests
    /\ served' = served + 1

ProcessIncomingEmail ==
    /\ Accept
    /\ \E email \in InboundEmails(DB), send \in SendOutcomes :
          Serve(NewWebhook(email), SendPlan(send))
    /\ UNCHANGED <<now, pureVars>>

CreateAlias ==
    /\ Accept
    /\ Len(aliases) < MaxAliases
    /\ \E input \in CreateInputs(DB) : Serve(NewCreate(input), SendPlan("sent"))
    /\ UNCHANGED <<now, pureVars>>

KillAlias ==
    /\ Accept
    /\ \E id \in LocalParts(DB) : Serve(NewKill(id), SendPlan("sent"))
    /\ UNCHANGED <<now, pureVars>>

ReplaceAlias ==
    /\ Accept
    /\ Len(aliases) < MaxAliases
    /\ \E input \in ReplaceInputs(DB) : Serve(NewReplace(input), SendPlan("sent"))
    /\ UNCHANGED <<now, pureVars>>

BreachSweep ==
    /\ Accept
    /\ \E plan \in SweepPlans(DB, now) : Serve(NewSweep, plan)
    /\ UNCHANGED <<now, pureVars>>

Tick ==
    /\ Accept
    /\ now + TickHours <= MaxClock
    /\ now' = now + TickHours
    /\ UNCHANGED <<storeVars, reqs, pureVars>>

Next ==
    \/ ProcessIncomingEmail
    \/ CreateAlias
    \/ KillAlias
    \/ ReplaceAlias
    \/ BreachSweep
    \/ Tick

Spec == Init /\ [][Next]_vars

(***************************************************************************)
(* SpecScore: SpamDetector applied to one mail.                            *)
(***************************************************************************)
KeywordIds == 1..Len(SPAM_KEYWORDS)

MailFlagProfiles ==
    {PlainMail,
     [PlainMail EXCEPT !.capsRatioHigh = TRUE],
     [PlainMail EXCEPT !.manyExclamations = TRUE],
     [PlainMail EXCEPT !.suspiciousSender = TRUE],
     [PlainMail EXCEPT !.subjectAllCaps = TRUE],
     [PlainMail EXCEPT !.subjectBareReFw = TRUE],
     [PlainMail EXCEPT !.hasSubject = FALSE],
     [PlainMail EXCEPT !.hasText = FALSE, !.hasHtml = TRUE],
     [PlainMail EXCEPT !.hasHtml = TRUE, !.manyLinks = TRUE],
     [PlainMail EXCEPT !.xSpamStatusYes = TRUE],
     [PlainMail EXCEPT !.returnPathMismatch = TRUE],
     [PlainMail EXCEPT !.hasHeaders = FALSE],
     [PlainMail EXCEPT !.capsRatioHigh = TRUE, !.manyExclamations = TRUE,
                       !.suspiciousSender = TRUE, !.subjectAllCaps = TRUE,
                       !.subjectBareReFw = TRUE, !.hasText = FALSE, !.hasHtml = TRUE,
                       !.manyLinks = TRUE, !.xSpamStatusYes = TRUE,
                       !.returnPathMismatch = TRUE]}

MailInputs == {[p EXCEPT !.keywords = k] : p \in MailFlagProfiles, k \in SUBSET KeywordIds}

InitScore ==
    /\ InitStore
    /\ reqs = <<>>
    /\ served = 0
    /\ mailIn \in MailInputs
    /\ analysisOut = NoAnalysis
    /\ breachesIn = <<>>
    /\ severityOut = Never
    /\ rateLimits = NoRateLimits

ScoreMail ==
    /\ ~analysisOut.done
    /\ analysisOut' =
          [done |-> TRUE, isSpam |-> analyze(mailIn).isSpam, score |-> analyze(mailIn).score,
           quarantine |-> shouldQuarantine(analyze(mailIn).score),
           block |-> shouldBlock(analyze(mailIn).score)]
    /\ UNCHANGED <<storeVars, now, reqs, served, mailIn, breachesIn, severityOut, rateLimits>>

NextScore == ScoreMail

SpecScore == InitScore /\ [][NextScore]_vars

(***************************************************************************)
(* SpecSeverity: BreachMonitor.calculateSeverity applied to a breach list. *)
(***************************************************************************)
MaxBreaches == 2

DataClassLists ==
    {<<StrPasswords>>, <<StrEmailAddresses, StrHistoricalPasswords>>,
     <<StrPartialCreditCardData>>, <<StrUpperPasswords, StrEmailAddresses>>}

BreachUniverse ==
    {Breach("b", v, f, s, FALSE, sp, <<>>) : v \in BOOLEAN, f \in BOOLEAN, s \in BOOLEAN,
                                            sp \in BOOLEAN}
    \cup {Breach("b", v, FALSE, s, FALSE, FALSE, c) : v \in BOOLEAN, s \in BOOLEAN,
                                                    c \in DataClassLists}

BreachInputs == UNION {[1..n -> BreachUniverse] : n \in 0..MaxBreaches}

InitSeverity ==
    /\ InitStore
    /\ reqs = <<>>
    /\ served = 0
    /\ mailIn = PlainMail
    /\ analysisOut = NoAnalysis
    /\ breachesIn \in BreachInputs
    /\ severityOut = Never
    /\ rateLimits = NoRateLimits

ScoreBreaches ==
    /\ severityOut = Never
    /\ severityOut' = calculateSeverity(breachesIn)
    /\ UNCHANGED <<storeVars, now, reqs, served, mailIn, analysisOut, breachesIn, rateLimits>>

NextSeverity == ScoreBreaches

SpecSeverity == InitSeverity /\ [][NextSeverity]_vars

(***************************************************************************)
(* SpecSpamRun: spam-classified messages delivered one at a time to one    *)
(* alias, created with spamCount 0.                                        *)
(***************************************************************************)
MaxSpamRun == 12

\* the store after one alias has been created
CreatedDB(enableDecoy) ==
    Run(EmptyDB, NewCreate([localPart |-> 1, enableDecoy |-> enableDecoy]),
        SendPlan("sent"), 0).db

SpamContents == {c \in MailContents : analyze(c).isSpam}

InitSpamRun ==
    /\ SetDBInit(CreatedDB(FALSE))
    /\ now = 0
    /\ InitPure
    /\ reqs = <<>>
    /\ served = 0

DeliverSpam ==
    /\ served < MaxSpamRun
    /\ served' = served + 1
    /\ \E c \in SpamContents :
          Serve(NewWebhook(Envelope(c, 1, "m1", {})), SendPlan("sent"))
    /\ UNCHANGED <<now, pureVars>>

NextSpamRun == DeliverSpam

SpecSpamRun == InitSpamRun /\ [][NextSpamRun]_vars

(***************************************************************************)
(* SpecConc: requests overlap.  A request occupies a slot and advances one *)
(* await at a time; between two awaits of one request any other request    *)
(* may run.                                                                *)
(***************************************************************************)
MaxStarted == 2
SeedSpamCount == AUTO_KILL_SPAM_COUNT - 2

\* two requests overlap
Slots == {1, 2}

BlockMail == [PlainMail EXCEPT !.keywords = {1, 2, 3, 4, 5, 8}]

RECURSIVE SpamHistory(_, _)
SpamHistory(db, n) ==
    IF n = 0 THEN db
    ELSE SpamHistory(Run(db, NewWebhook(Envelope(BlockMail, 1, "m1", {})),
                         SendPlan("sent"), 0).db, n - 1)

\* stores the sequential system reaches: a fresh decoy-seeded alias; a plain
\* alias that has received SeedSpamCount block-level messages; a decoy-seeded
\* alias a sweep has flagged with a minor breach, one check interval ago
Seeds ==
    {[db |-> CreatedDB(TRUE), now |-> 0],
     [db |-> SpamHistory(CreatedDB(FALSE), SeedSpamCount), now |-> 0],
     [db |-> Run(CreatedDB(TRUE), NewSweep,
                 [send |-> "sent",
                  lookup |-> <<[throws |-> FALSE, breaches |-> <<BreachPlain>>]>>,
                  probe |-> <<FALSE>>], 0).db,
      now |-> TickHours]}

InitConc ==
    /\ \E seed \in Seeds :
          /\ SetDBInit(seed.db)
          /\ now = seed.now
    /\ InitPure
    /\ reqs = [s \in Slots |-> Idle]
    /\ served = 0

\* a clean message quoting the decoy token of alias 1, or a block-level one
ConcEmails(db) ==
    {Envelope(PlainMail, to, "m1", {1}) : to \in AliasIds(db)}
    \cup {Envelope(BlockMail, to, "m1", {}) : to \in AliasIds(db)}

Start(s, l) ==
    /\ reqs[s].pc = "done"
    /\ served < MaxStarted
    /\ served' = served + 1
    /\ reqs' = [reqs EXCEPT ![s] = l]
    /\ UNCHANGED <<storeVars, now, pureVars>>

StartWebhook == \E s \in Slots, email \in ConcEmails(DB) : Start(s, NewWebhook(email))

StartKill == \E s \in Slots, id \in AliasIds(DB) : Start(s, NewKill(id))

StartReplace ==
    /\ Len(aliases) < MaxAliases
    /\ \E s \in Slots, id \in AliasIds(DB) :
          Start(s, NewReplace([oldAliasId |-> id, localPart |-> Len(aliases) + 1,
                               enableDecoy |-> FALSE]))

StartSweep == \E s \in Slots : Start(s, NewSweep)

\* what the outside world may answer at the await a request is about to run
ExtChoices(l) ==
    CASE l.kind = "webhook" /\ l.pc = "forward" ->
            {[NoExt EXCEPT !.send = o] : o \in SendOutcomes}
      [] l.kind = "sweep" /\ l.pc = "lookup" ->
            {[NoExt EXCEPT !.lookup = o] : o \in LookupOutcomes}
      [] l.kind = "sweep" /\ l.pc = "probe" ->
            {[NoExt EXCEPT !.probe = b] : b \in BOOLEAN}
      [] OTHER -> {NoExt}

StepRequest ==
    \E s \in Slots :
        /\ reqs[s].pc # "done"
        /\ \E ext \in ExtChoices(reqs[s]) :
              LET r == Step(DB, reqs[s], ext, now)
              IN  /\ SetDB(r.db)
                  /\ reqs' = [reqs EXCEPT ![s] = r.l]
        /\ UNCHANGED <<now, served, pureVars>>

NextConc ==
    \/ StartWebhook
    \/ StartKill
    \/ StartReplace
    \/ StartSweep
    \/ StepRequest

SpecConc == InitConc /\ [][NextConc]_vars

(***************************************************************************)
(* SpecRace: two inbound messages for one decoy-seeded alias that is one   *)
(* spam message short of the auto-kill count, interleaved at every await.  *)
(***************************************************************************)
InitRace ==
    /\ SetDBInit(SpamHistory(CreatedDB(TRUE), AUTO_KILL_SPAM_COUNT - 1))
    /\ now = 0
    /\ InitPure
    /\ reqs = [s \in Slots |-> Idle]
    /\ served = 0

\* a clean message quoting the decoy token, a block-level message, and a
\* block-level message quoting the decoy token
RaceEmails ==
    {Envelope(PlainMail, 1, "m1", {1}),
     Envelope(BlockMail, 1, "m1", {}),
     Envelope(BlockMail, 1, "m1", {1})}

StartRaceMail == \E s \in Slots, email \in RaceEmails : Start(s, NewWebhook(email))

NextRace ==
    \/ StartRaceMail
    \/ StepRequest

SpecRace == InitRace /\ [][NextRace]_vars

(***************************************************************************)
(* SpecSelect: one sweep over a large Alias table, so that the findMany    *)
(* limit binds.  Row i is one of four kinds, by position.                  *)
(***************************************************************************)
MaxSweepAliases == 104
TableSizes == {2, 7, MaxSweepAliases}
SelectClocks == {HOURS_BETWEEN_CHECKS, HOURS_BETWEEN_CHECKS + 6, 2 * HOURS_BETWEEN_CHECKS + 1}

\* never checked; checked at hour 0; checked at hour 6; killed, never checked
SelectRow(i, offset) ==
    LET row == NewAliasRow(i, FALSE, NoToken, UserEmail, NoId)
        kind == (i + offset) % 4
    IN  CASE kind = 0 -> row
          [] kind = 1 -> [row EXCEPT !.lastBreachCheck = 0]
          [] kind = 2 -> [row EXCEPT !.lastBreachCheck = 6]
          [] kind = 3 -> [row EXCEPT !.status = "KILLED"]

SelectDB(n, offset) == [EmptyDB EXCEPT !.aliases = [i \in 1..n |-> SelectRow(i, offset)]]

\* the breach service is rate limited for every fifth alias, reports a minor
\* breach for every third, and is clean otherwise
LargeLookup(id) ==
    [throws |-> id % 5 = 0, breaches |-> IF id % 3 = 0 THEN <<BreachPlain>> ELSE <<>>]

\* the database rejects the lastBreachCheck update of every seventh alias and
\* the BreachCheck insert of every sixth
LargeStoreFails(id, pc) ==
    \/ id % 7 = 0 /\ pc = "updateCheck"
    \/ id % 6 = 0 /\ pc = "storeBreach"

InitSelect ==
    /\ \E n \in TableSizes, offset \in 0..3 : SetDBInit(SelectDB(n, offset))
    /\ now \in SelectClocks
    /\ InitPure
    /\ reqs = <<>>
    /\ served = 0

StartLarge ==
    /\ reqs = <<>>
    /\ reqs' = <<NewSweep>>
    /\ served' = 1
    /\ UNCHANGED <<storeVars, now, pureVars>>

StepLarge ==
    /\ reqs # <<>>
    /\ reqs[1].pc # "done"
    /\ LET l == reqs[1]
           ext == IF l.pc = "lookup"
                  THEN [NoExt EXCEPT !.lookup = LargeLookup(l.batch[l.i].id)]
                  ELSE IF l.pc \in StoreSteps
                  THEN [NoExt EXCEPT !.storeFails = LargeStoreFails(l.batch[l.i].id, l.pc)]
                  ELSE NoExt
           r == Step(DB, l, ext, now)
       IN  /\ SetDB(r.db)
           /\ reqs' = <<r.l>>
    /\ UNCHANGED <<now, served, pureVars>>

NextSelect ==
    \/ StartLarge
    \/ StepLarge

SpecSelect == InitSelect /\ [][NextSelect]_vars

(***************************************************************************)
(* SpecSweep: breach sweeps, one at a time, over two aliases, with the     *)
(* clock advancing between runs.  reqs keeps the last run and its start.   *)
(***************************************************************************)
MaxSweepRuns == 2
MaxSweepClock == 26
SweepTicks == {HOURS_BETWEEN_CHECKS \div 2, HOURS_BETWEEN_CHECKS \div 2 + 1}

TwoAliases(decoy1, decoy2) ==
    Run(CreatedDB(decoy1), NewCreate([localPart |-> 2, enableDecoy |-> decoy2]),
        SendPlan("sent"), 0).db

\* a decoy-seeded and a plain alias, in both orders; a killed alias first
SweepSeeds ==
    {TwoAliases(TRUE, FALSE), TwoAliases(FALSE, TRUE),
     Run(TwoAliases(FALSE, TRUE), NewKill(1), SendPlan("sent"), 0).db}

\* checkEmail is rate limited, finds nothing, or returns a breach list
SweepOutcomes ==
    {[throws |-> TRUE, breaches |-> <<>>]}
    \cup {[throws |-> FALSE, breaches |-> b] :
             b \in {<<>>, <<BreachPlain>>, <<BreachMajor>>}}

SmallPlans(db, clock) ==
    [send : {"sent"}, lookup : [DueIds(db, clock) -> SweepOutcomes],
     probe : [DueIds(db, clock) -> BOOLEAN]]

InitSweep ==
    /\ \E db \in SweepSeeds : SetDBInit(db)
    /\ now = 0
    /\ InitPure
    /\ reqs = <<>>
    /\ served = 0

SweepRun ==
    /\ served < MaxSweepRuns
    /\ served' = served + 1
    /\ \E plan \in SmallPlans(DB, now) :
          LET r == Run(DB, NewSweep, plan, now)
          IN  /\ SetDB(r.db)
              /\ reqs' = <<[l |-> r.l, at |-> now]>>
    /\ UNCHANGED <<now, pureVars>>

SweepTick ==
    /\ \E d \in SweepTicks :
          /\ now + d <= MaxSweepClock
          /\ now' = now + d
    /\ UNCHANGED <<storeVars, reqs, served, pureVars>>

NextSweep ==
    \/ SweepRun
    \/ SweepTick

SpecSweep == InitSweep /\ [][NextSweep]_vars

(***************************************************************************)
(* SpecMail: inbound messages, one at a time, redeliveries included.  The  *)
(* last message and its response are kept in reqs.                         *)
(***************************************************************************)
MaxMails == 2

\* a fresh decoy-seeded alias; a fresh plain alias; an alias its user
\* killed; a plain alias two spam messages short of the auto-kill count
MailSeeds ==
    {CreatedDB(TRUE), CreatedDB(FALSE),
     Run(CreatedDB(FALSE), NewKill(1), SendPlan("sent"), 0).db,
     SpamHistory(CreatedDB(FALSE), SeedSpamCount)}

\* the provider delivers, and may redeliver, messages m1 and m2
Deliveries(db) ==
    {Envelope(c, to, m, t) : c \in MailContents, to \in LocalParts(db),
                             m \in {"m1", "m2"}, t \in {{}, {1}}}

InitMail ==
    /\ \E db \in MailSeeds : SetDBInit(db)
    /\ now = 0
    /\ InitPure
    /\ reqs = <<>>
    /\ served = 0

DeliverOnce ==
    /\ served < MaxMails
    /\ served' = served + 1
    /\ \E email \in Deliveries(DB), send \in SendOutcomes :
          LET r == Run(DB, NewWebhook(email), SendPlan(send), now)
          IN  /\ SetDB(r.db)
              /\ reqs' = <<r.l>>
    /\ UNCHANGED <<now, pureVars>>

NextMail == DeliverOnce

SpecMail == InitMail /\ [][NextMail]_vars

(***************************************************************************)
(* The inbox routes: GET, PATCH and DELETE /api/inbox/[emailId].  An       *)
(* EmailMessage is named by its row.                                       *)
(***************************************************************************)
\* GET marks the message read if it is not
inboxGet(db, m) ==
    IF m.read THEN db
    ELSE [db EXCEPT !.emails = (@ (-) Row(m)) (+) Row([m EXCEPT !.read = TRUE])]

\* PATCH writes body.read, or the stored flag when the body has none
inboxPatch(db, m, body) ==
    [db EXCEPT !.emails =
        (@ (-) Row(m)) (+) Row([m EXCEPT !.read = IF body.hasRead THEN body.read ELSE @])]

inboxDelete(db, m) == [db EXCEPT !.emails = @ (-) Row(m)]

PatchBodies == [hasRead : BOOLEAN, read : BOOLEAN]

(***************************************************************************)
(* SpecLedger: every operation of the system, one at a time, on stores     *)
(* that already hold mail, events, audit entries and breach records.       *)
(* reqs keeps the last operation.                                          *)
(***************************************************************************)
MaxLedgerOps == 2

\* an alias that received a clean message and was then swept with `breaches`
SweptDB(enableDecoy, breaches) ==
    Run(Run(CreatedDB(enableDecoy), NewWebhook(Envelope(PlainMail, 1, "m1", {})),
            SendPlan("sent"), 0).db,
        NewSweep,
        [send |-> "sent", lookup |-> <<[throws |-> FALSE, breaches |-> breaches]>>,
         probe |-> <<FALSE>>], 0).db

\* flagged by an advisory finding; leaked by a major finding; killed by its
\* user after the advisory finding
LedgerSeeds ==
    {SweptDB(TRUE, <<BreachPlain>>), SweptDB(FALSE, <<BreachMajor>>),
     Run(SweptDB(FALSE, <<BreachPlain>>), NewKill(1), SendPlan("sent"), 0).db}

InitLedger ==
    /\ \E db \in LedgerSeeds : SetDBInit(db)
    /\ now \in {0, TickHours}
    /\ InitPure
    /\ reqs = <<>>
    /\ served = 0

LedgerAccept ==
    /\ served < MaxLedgerOps
    /\ served' = served + 1
    /\ UNCHANGED <<now, pureVars>>

LedgerServe(l, plan) ==
    LET r == Run(DB, l, plan, now)
    IN  /\ SetDB(r.db)
        /\ reqs' = <<r.l>>

LedgerMails(db) ==
    {Envelope(c, to, "m1", t) : c \in {PlainMail, BlockMail}, to \in AliasIds(db),
                                t \in {{}, {1}}}

LedgerWebhook ==
    /\ LedgerAccept
    /\ \E email \in LedgerMails(DB), send \in SendOutcomes :
          LedgerServe(NewWebhook(email), SendPlan(send))

LedgerCreate ==
    /\ LedgerAccept
    /\ \E enableDecoy \in BOOLEAN :
          LedgerServe(NewCreate([localPart |-> Len(aliases) + 1,
                                 enableDecoy |-> enableDecoy]), SendPlan("sent"))

LedgerKill ==
    /\ LedgerAccept
    /\ \E id \in AliasIds(DB) : LedgerServe(NewKill(id), SendPlan("sent"))

LedgerReplace ==
    /\ LedgerAccept
    /\ \E id \in AliasIds(DB) :
          LedgerServe(NewReplace([oldAliasId |-> id, localPart |-> Len(aliases) + 1,
                                  enableDecoy |-> FALSE]), SendPlan("sent"))

LedgerSweep ==
    /\ LedgerAccept
    /\ \E plan \in SmallPlans(DB, now) : LedgerServe(NewSweep, plan)

InboxGet ==
    /\ LedgerAccept
    /\ \E m \in BagToSet(emails) :
          /\ SetDB(inboxGet(DB, m))
          /\ reqs' = <<Finished("inboxGet", m, [status |-> 200])>>

InboxPatch ==
    /\ LedgerAccept
    /\ \E m \in BagToSet(emails), body \in PatchBodies :
          /\ SetDB(inboxPatch(DB, m, body))
          /\ reqs' = <<Finished("inboxPatch", m, [status |-> 200])>>

InboxDelete ==
    /\ LedgerAccept
    /\ \E m \in BagToSet(emails) :
          /\ SetDB(inboxDelete(DB, m))
          /\ reqs' = <<Finished("inboxDelete", m, [status |-> 200])>>

NextLedger ==
    \/ LedgerWebhook
    \/ LedgerCreate
    \/ LedgerKill
    \/ LedgerReplace
    \/ LedgerSweep
    \/ InboxGet
    \/ InboxPatch
    \/ InboxDelete

SpecLedger == InitLedger /\ [][NextLedger]_vars

(***************************************************************************)
(* SpecRateLimit: checkRateLimit and cleanupRateLimits on the module-level *)
(* map, with the clock in milliseconds.  reqs is the log of the calls made *)
(* so far and whether each threw.                                          *)
(***************************************************************************)
MaxCalls == 3
MaxRateClock == 3

Identifiers == {"ip1", "ip2"}
\* the limit and windowMs arguments (defaults 100 and 60000): a positive
\* number of calls and a positive number of milliseconds
Limits == {1, 2}
WindowSizes == {1, 2}

checkRateLimitMutant(limits, identifier, limit, windowMs, clock) ==
    IF identifier \notin DOMAIN limits \/ clock > limits[identifier].resetAt
    THEN [rateLimits |-> (identifier :> [count |-> 1, resetAt |-> clock + windowMs])
                         @@ limits,
          threw |-> FALSE]
    ELSE IF limits[identifier].count > limit
    THEN [rateLimits |-> limits, threw |-> TRUE]
    ELSE [rateLimits |-> [limits EXCEPT ![identifier].count = @ + 1], threw |-> FALSE]

checkRateLimit(limits, identifier, limit, windowMs, clock) ==
    IF identifier \notin DOMAIN limits \/ clock > limits[identifier].resetAt
    THEN [rateLimits |-> (identifier :> [count |-> 1, resetAt |-> clock + windowMs])
                         @@ limits,
          threw |-> FALSE]
    ELSE IF limits[identifier].count >= limit
    THEN [rateLimits |-> limits, threw |-> TRUE]
    ELSE [rateLimits |-> [limits EXCEPT ![identifier].count = @ + 1], threw |-> FALSE]

cleanupRateLimits(limits, clock) ==
    [key \in {k \in DOMAIN limits : ~(clock > limits[k].resetAt)} |-> limits[key]]

InitRateLimit ==
    /\ InitStore
    /\ mailIn = PlainMail
    /\ analysisOut = NoAnalysis
    /\ breachesIn = <<>>
    /\ severityOut = Never
    /\ rateLimits = NoRateLimits
    /\ now = 0
    /\ reqs = <<>>
    /\ served = 0

CheckRateLimit ==
    /\ Len(reqs) < MaxCalls
    /\ \E identifier \in Identifiers, limit \in Limits, windowMs \in WindowSizes :
          LET r == checkRateLimit(rateLimits, identifier, limit, windowMs, now)
          IN  /\ rateLimits' = r.rateLimits
              /\ reqs' = Append(reqs, [identifier |-> identifier, limit |-> limit,
                                       windowMs |-> windowMs, at |-> now,
                                       threw |-> r.threw])
    /\ served' = served + 1
    /\ UNCHANGED <<storeVars, now, mailIn, analysisOut, breachesIn, severityOut>>

\* the setInterval callback
CleanupRateLimits ==
    /\ rateLimits' = cleanupRateLimits(rateLimits, now)
    /\ UNCHANGED <<storeVars, now, reqs, served, mailIn, analysisOut, breachesIn,
                   severityOut>>

RateTick ==
    /\ now < MaxRateClock
    /\ now' = now + 1
    /\ UNCHANGED <<storeVars, reqs, served, pureVars>>

NextRateLimit ==
    \/ CheckRateLimit
    \/ CleanupRateLimits
    \/ RateTick

SpecRateLimit == InitRateLimit /\ [][NextRateLimit]_vars

(***************************************************************************)
(* SpecAudit: operations served while every AuditLog write fails.  reqs    *)
(* keeps the last request, what the outside world answered, and the        *)
(* response.                                                               *)
(***************************************************************************)
MaxAuditOps == 2

\* the awaits that create an AuditLog row
AuditSteps == {"leakAudit", "killAudit", "audit", "breachAudit", "decoyAudit"}

RECURSIVE RunAuditDown(_, _, _, _)
RunAuditDown(db, l, plan, clock) ==
    IF l.pc = "done" THEN [db |-> db, l |-> l]
    ELSE LET r == Step(db, l, [ExtAt(l, plan) EXCEPT !.storeFails = l.pc \in AuditSteps],
                       clock)
         IN  RunAuditDown(r.db, r.l, plan, clock)

\* a fresh decoy-seeded alias; a plain alias one spam message short of the
\* auto-kill count; an alias flagged by a sweep; a killed alias
AuditSeeds ==
    {CreatedDB(TRUE),
     SpamHistory(CreatedDB(FALSE), AUTO_KILL_SPAM_COUNT - 1),
     SweptDB(FALSE, <<BreachPlain>>),
     Run(CreatedDB(FALSE), NewKill(1), SendPlan("sent"), 0).db}

InitAudit ==
    /\ \E db \in AuditSeeds : SetDBInit(db)
    /\ now = 0
    /\ InitPure
    /\ reqs = <<>>
    /\ served = 0

AuditDownServe(l, plan) ==
    /\ served < MaxAuditOps
    /\ served' = served + 1
    /\ LET r == RunAuditDown(DB, l, plan, now)
       IN  /\ SetDB(r.db)
           /\ reqs' = <<[req |-> l, plan |-> plan, l |-> r.l]>>
    /\ UNCHANGED <<now, pureVars>>

AuditDownWebhook ==
    \E email \in LedgerMails(DB), send \in SendOutcomes :
       AuditDownServe(NewWebhook(email), SendPlan(send))

AuditDownKill == \E id \in AliasIds(DB) : AuditDownServe(NewKill(id), SendPlan("sent"))

AuditDownReplace ==
    \E id \in AliasIds(DB) :
       AuditDownServe(NewReplace([oldAliasId |-> id, localPart |-> Len(aliases) + 1,
                                  enableDecoy |-> FALSE]), SendPlan("sent"))

AuditDownSweep == \E plan \in SmallPlans(DB, now) : AuditDownServe(NewSweep, plan)

NextAudit ==
    \/ AuditDownWebhook
    \/ AuditDownKill
    \/ AuditDownReplace
    \/ AuditDownSweep

SpecAudit == InitAudit /\ [][NextAudit]_vars

(***************************************************************************)
(* SpecReplace: replace requests, one at a time, on stores the sequential  *)
(* system reaches.  The last request and its response are kept in reqs.    *)
(***************************************************************************)
MaxReplaces == 3

\* a fresh ACTIVE alias; an ACTIVE alias a sweep has flagged; an alias its
\* user killed; an alias leaked by a decoy message, with its stored mail
ReplaceSeeds ==
    {CreatedDB(TRUE),
     Run(CreatedDB(FALSE), NewSweep,
         [send |-> "sent",
          lookup |-> <<[throws |-> FALSE, breaches |-> <<BreachPlain>>]>>,
          probe |-> <<FALSE>>], 0).db,
     Run(CreatedDB(FALSE), NewKill(1), SendPlan("sent"), 0).db,
     Run(Run(CreatedDB(TRUE), NewWebhook(Envelope(PlainMail, 1, "m1", {1})),
             SendPlan("sent"), 0).db,
         NewWebhook(Envelope(BlockMail, 1, "m1", {})), SendPlan("sent"), 0).db}

InitReplace ==
    /\ \E db \in ReplaceSeeds : SetDBInit(db)
    /\ now = 0
    /\ InitPure
    /\ reqs = <<>>
    /\ served = 0

ReplaceOnce ==
    /\ served < MaxReplaces
    /\ served' = served + 1
    /\ \E input \in ReplaceInputs(DB) :
          LET r == Run(DB, NewReplace(input), SendPlan("sent"), now)
          IN  /\ SetDB(r.db)
              /\ reqs' = <<r.l>>
    /\ UNCHANGED <<now, pureVars>>

NextReplace == ReplaceOnce

SpecReplace == InitReplace /\ [][NextReplace]_vars

(***************************************************************************)
(* Properties                                                              *)
(***************************************************************************)

\* rows of the AuditLog table about one alias, and those with one action
NumAudits(logs, id) ==
    BagCardinality([r \in {x \in BagToSet(logs) : x.resource = id} |-> logs[r]])

NumAuditsOf(logs, id, action) ==
    BagCardinality([r \in {x \in BagToSet(logs) : x.resource = id /\ x.action = action}
                       |-> logs[r]])

NumAuditsFor(logs, id, reason) ==
    BagCardinality([r \in {x \in BagToSet(logs) : x.resource = id /\ x.reason = reason}
                       |-> logs[r]])

\* rows of the RelayEvent table about one alias, by type and by origin
NumEventsOf(events, id, type) ==
    BagCardinality([r \in {x \in BagToSet(events) : x.aliasId = id /\ x.type = type}
                       |-> events[r]])

NumEventsFrom(events, id, metas) ==
    BagCardinality([r \in {x \in BagToSet(events) : x.aliasId = id /\ x.meta \in metas}
                       |-> events[r]])

NumBreachChecks(checks, id) ==
    BagCardinality([r \in {x \in BagToSet(checks) : x.email = id} |-> checks[r]])

NumEmails(rows, id, status) ==
    BagCardinality([r \in {x \in BagToSet(rows) : x.aliasId = id /\ x.status = status}
                       |-> rows[r]])

\* the RelayEvents that record a status transition
TransitionEvents == {"decoy_in_mail", "breach_monitor", "decoy_token", "alias_killed"}

Terminal == {"KILLED", "LEAKED", "SUSPENDED"}

\* C1: under any interleaving of inbound-webhook processing, user kill, alias
\* replacement and breach-sweep runs, an alias whose status has become
\* KILLED, LEAKED or SUSPENDED never has status ACTIVE again.
C1_NeverActiveAgain ==
    [][\A id \in 1..Len(aliases) :
          aliases[id].status \in Terminal => aliases'[id].status # "ACTIVE"]_vars

\* a replacement that read the alias ACTIVE writes its status after an
\* overlapping user kill has already written KILLED
C1_Witness ==
    \E s \in Slots, t \in Slots :
        /\ reqs[s].kind = "replace"
        /\ reqs[s].pc = "audit"
        /\ reqs[s].oldAlias.status = "ACTIVE"
        /\ reqs[t].kind = "kill"
        /\ reqs[t].pc \in {"relayEvent", "audit", "done"}
        /\ reqs[t].input = reqs[s].input.oldAliasId
        /\ aliases[reqs[t].input].status = "KILLED"

\* C2: when a message whose body contains the decoy token of an ACTIVE,
\* decoy-seeded alias is processed, the alias goes from ACTIVE to LEAKED, no
\* forward of the message is dispatched, and exactly one LEAK_DETECTED
\* RelayEvent and exactly one AuditLog entry are created for the alias.
C2_DecoyLeak ==
    \A email \in InboundEmails(DB), send \in SendOutcomes, id \in 1..Len(aliases) :
        (/\ aliases[id].localPart = email.to
         /\ aliases[id].status = "ACTIVE"
         /\ aliases[id].decoySeeded
         /\ aliases[id].decoyToken \in email.bodyTokens)
        => LET r == Run(DB, NewWebhook(email), SendPlan(send), now)
           IN  /\ r.db.aliases[id].status = "LEAKED"
               /\ r.db.outbox = outbox
               /\ NumEventsOf(r.db.relayEvents, id, "LEAK_DETECTED")
                    = NumEventsOf(relayEvents, id, "LEAK_DETECTED") + 1
               /\ NumAudits(r.db.auditLogs, id) = NumAudits(auditLogs, id) + 1

\* the one message an alias ever received tripped the decoy and was delivered
C2_ForwardedLeak ==
    \E id \in 1..Len(aliases) :
        /\ aliases[id].status = "LEAKED"
        /\ NumEventsFrom(relayEvents, id, {"decoy_in_mail"}) = 1
        /\ NumEventsFrom(relayEvents, id, {"inbound"}) = 1
        /\ NumEmails(emails, id, "DELIVERED") = 1
        /\ BagCardinality(outbox) = 1

\* C3: when spam-classified messages are delivered one at a time to one
\* ACTIVE alias starting from spamCount 0, the alias is auto-killed (KILLED,
\* one ALIAS_AUTO_KILLED AuditLog entry) while the 10th is processed, not
\* earlier and not later, and exactly one such entry ever exists.
C3_KillOnTenth ==
    LET kills == NumAuditsOf(auditLogs, 1, "ALIAS_AUTO_KILLED")
    IN  /\ served < AUTO_KILL_SPAM_COUNT => aliases[1].status = "ACTIVE" /\ kills = 0
        /\ served >= AUTO_KILL_SPAM_COUNT => aliases[1].status = "KILLED" /\ kills = 1

\* ten messages classified as spam are stored and the alias is still ACTIVE
C3_TenSpamNoKill ==
    /\ served = AUTO_KILL_SPAM_COUNT
    /\ NumEmails(emails, 1, "SPAM") = AUTO_KILL_SPAM_COUNT
    /\ NumEventsOf(relayEvents, 1, "SPAM_DETECTED") = AUTO_KILL_SPAM_COUNT
    /\ aliases[1].status = "ACTIVE"
    /\ aliases[1].spamCount = 0
    /\ NumAudits(auditLogs, 1) = 1

\* C4: when two spam messages for one alias are processed concurrently, the
\* increment and the auto-kill check behave atomically: once the requests
\* have finished and the stored spamCount is 10 or more, the alias has been
\* killed (the 9th and 10th message cannot both skip the kill).
C4_AtomicSpamKill ==
    \A id \in 1..Len(aliases) :
        (/\ \A s \in Slots : reqs[s].pc = "done"
         /\ aliases[id].spamCount >= AUTO_KILL_SPAM_COUNT)
        => aliases[id].status # "ACTIVE"

\* both requests are finished, the counter is at 10, and nothing killed
C4_BothSkipped ==
    /\ \A s \in Slots : reqs[s].kind = "webhook" /\ reqs[s].pc = "done"
    /\ aliases[1].spamCount = AUTO_KILL_SPAM_COUNT
    /\ aliases[1].status = "ACTIVE"
    /\ NumAuditsOf(auditLogs, 1, "ALIAS_AUTO_KILLED") = 0

\* C5: every change of an alias's status, whichever operation makes it, is
\* accompanied by exactly one new AuditLog entry and exactly one new
\* RelayEvent for that alias.  (A sweep that takes both its breach path and
\* its decoy path on one alias makes two decisions; each is counted alone.
\* The RelayEvents of the message itself, RECEIVED, SPAM_DETECTED and
\* FORWARDED, and the sweep's advisory event are not counted.)
C5_OneAuditOneEvent ==
    [][\A id \in 1..Len(aliases) :
          aliases'[id].status # aliases[id].status
          => LET decisions ==
                    IF /\ NumEventsFrom(relayEvents', id, {"breach_monitor"})
                            > NumEventsFrom(relayEvents, id, {"breach_monitor"})
                       /\ NumEventsFrom(relayEvents', id, {"decoy_token"})
                            > NumEventsFrom(relayEvents, id, {"decoy_token"})
                    THEN 2 ELSE 1
             IN  /\ NumAudits(auditLogs', id) = NumAudits(auditLogs, id) + decisions
                 /\ NumEventsFrom(relayEvents', id, TransitionEvents)
                      = NumEventsFrom(relayEvents, id, TransitionEvents) + decisions]_vars

\* a replaced alias was moved to KILLED with an audit entry and no RelayEvent
C5_SilentReplace ==
    \E id \in 1..Len(aliases) :
        /\ aliases[id].status = "KILLED"
        /\ aliases[id].replacedById # NoId
        /\ NumAuditsOf(auditLogs, id, "ALIAS_REPLACED") = 1
        /\ NumEventsFrom(relayEvents, id, TransitionEvents) = 0

\* C6: when a message addressed to an alias whose status is not ACTIVE is
\* processed, exactly one BLOCKED RelayEvent is appended and the result is
\* 'blocked'; no EmailMessage is created, no forward is dispatched, and the
\* alias's status and spamCount (every other table, too) are unchanged.
\* Stated of the handler run on every message it can be handed, in every
\* reachable store.
C6_PolicyBlock ==
    \A email \in InboundEmails(DB), send \in SendOutcomes, id \in 1..Len(aliases) :
        (aliases[id].localPart = email.to /\ aliases[id].status # "ACTIVE")
        => LET r == Run(DB, NewWebhook(email), SendPlan(send), now)
           IN  /\ r.l.result.status = "blocked"
               /\ r.db.relayEvents (-) relayEvents
                    = Row([aliasId |-> id, type |-> "BLOCKED", meta |-> "alias_status"])
               /\ BagCardinality(r.db.relayEvents) = BagCardinality(relayEvents) + 1
               /\ r.db.emails = emails
               /\ r.db.outbox = outbox
               /\ r.db.aliases = aliases
               /\ r.db.auditLogs = auditLogs
               /\ r.db.breachChecks = breachChecks

\* a message to a leaked alias has been blocked
C6_Witness ==
    \E id \in 1..Len(aliases) :
        /\ aliases[id].status = "LEAKED"
        /\ NumEventsFrom(relayEvents, id, {"alias_status"}) = 1
        /\ NumEventsFrom(relayEvents, id, {"inbound"}) = 0
        /\ emails = EmptyBag
        /\ outbox = EmptyBag

\* C7: in the breach sweep, the breach-lookup path moves an alias out of
\* ACTIVE if and only if the returned breach list is kill-eligible (a breach
\* verified, not fabricated, not retired) and its severity is at least 5;
\* for any other non-empty list the breaches are recorded as BreachCheck
\* rows, the alias is flagged breachDetected and one advisory LEAK_DETECTED
\* RelayEvent is written, and this path leaves the status ACTIVE.
\* Stated of the sweep run from every store in which a request is accepted,
\* for every answer of the breach lookup and of the decoy probe.
C7_BreachKillPolicy ==
    served < MaxRequests =>
    \A id \in DueIds(DB, now), b \in BreachLists \ {<<>>}, probe \in BOOLEAN,
       rest \in {<<>>, <<BreachMajor>>} :
        LET plan == [send |-> "sent",
                     lookup |-> [j \in DueIds(DB, now) |->
                                   [throws |-> FALSE,
                                    breaches |-> IF j = id THEN b ELSE rest]],
                     probe |-> [j \in DueIds(DB, now) |-> probe]]
            r == Run(DB, NewSweep, plan, now)
            eligible == \E i \in 1..Len(b) :
                           b[i].isVerified /\ ~b[i].isFabricated /\ ~b[i].isRetired
            kill == eligible /\ calculateSeverity(b) >= 5
            decoyPath == probe /\ aliases[id].decoySeeded
            killAudits == NumAuditsFor(r.db.auditLogs, id, "Data breach detected")
                          - NumAuditsFor(auditLogs, id, "Data breach detected")
            killEvents == NumEventsFrom(r.db.relayEvents, id, {"breach_monitor"})
                          - NumEventsFrom(relayEvents, id, {"breach_monitor"})
            advisories == NumEventsFrom(r.db.relayEvents, id, {"breach_monitor_minor"})
                          - NumEventsFrom(relayEvents, id, {"breach_monitor_minor"})
        IN  /\ plan \in SweepPlans(DB, now)
            /\ r.db.aliases[id].breachDetected
            /\ NumBreachChecks(r.db.breachChecks, id)
                 = NumBreachChecks(breachChecks, id) + Len(b)
            /\ kill => /\ r.db.aliases[id].status = "LEAKED"
                       /\ killAudits = 1 /\ killEvents = 1 /\ advisories = 0
            /\ ~kill => /\ killAudits = 0 /\ killEvents = 0 /\ advisories = 1
                        /\ ~decoyPath => /\ r.db.aliases[id].status = "ACTIVE"
                                         /\ NumAudits(r.db.auditLogs, id)
                                              = NumAudits(auditLogs, id)

\* a sweep recorded a verified breach of severity 3 and left the alias ACTIVE
C7_Witness ==
    \E id \in 1..Len(aliases) :
        /\ aliases[id].status = "ACTIVE"
        /\ aliases[id].breachDetected
        /\ aliases[id].lastBreachCheck = now
        /\ NumBreachChecks(breachChecks, id) = 1
        /\ BagIn([email |-> id, breachName |-> "Plain", verified |-> TRUE], breachChecks)
        /\ NumEventsFrom(relayEvents, id, {"breach_monitor_minor"}) = 1
        /\ NumEventsFrom(relayEvents, id, {"breach_monitor"}) = 0

\* C8: for every breach list, calculateSeverity is max(0, sum over the
\* breaches of 1 + 2 if verified + 3 if sensitive + 2 if a data class matches
\* the sensitive set (case-insensitive substring) - 1 if spam-list or
\* fabricated); one verified sensitive breach exposing passwords scores 8,
\* one unverified fabricated breach scores 0, the empty list scores 0.
C8_SeverityFormula ==
    LET matching == {StrPasswords, StrHistoricalPasswords, StrUpperPasswords}
        exposes(b) == \E i \in 1..Len(b.dataClasses) : b.dataClasses[i] \in matching
        points(b) == 1 + (IF b.isVerified THEN 2 ELSE 0)
                       + (IF b.isSensitive THEN 3 ELSE 0)
                       + (IF exposes(b) THEN 2 ELSE 0)
                       - (IF b.isSpamList \/ b.isFabricated THEN 1 ELSE 0)
        total[n \in 0..Len(breachesIn)] ==
            IF n = 0 THEN 0 ELSE total[n - 1] + points(breachesIn[n])
    IN  severityOut # Never =>
          /\ severityOut = Max(0, total[Len(breachesIn)])
          /\ breachesIn = <<>> => severityOut = 0
          /\ breachesIn = <<Breach("b", TRUE, FALSE, TRUE, FALSE, FALSE, <<StrPasswords>>)>>
                => severityOut = 8
          /\ breachesIn = <<Breach("b", FALSE, TRUE, FALSE, FALSE, FALSE, <<>>)>>
                => severityOut = 0

C8_Witness ==
    /\ Len(breachesIn) = 2
    /\ breachesIn[1] = Breach("b", TRUE, FALSE, TRUE, FALSE, FALSE, <<StrPasswords>>)
    /\ breachesIn[2] = Breach("b", FALSE, TRUE, FALSE, FALSE, FALSE, <<>>)
    /\ severityOut = 8

\* C9: for every spam score s, isSpam holds exactly when s >= 5.0,
\* shouldQuarantine(s) exactly when s >= 7.5 and shouldBlock(s) exactly when
\* s >= 10.0, so block implies quarantine implies isSpam.
C9_Thresholds ==
    analysisOut.done =>
      /\ analysisOut.isSpam <=> analysisOut.score >= 50
      /\ analysisOut.quarantine <=> analysisOut.score >= 75
      /\ analysisOut.block <=> analysisOut.score >= 100
      /\ analysisOut.block => analysisOut.quarantine
      /\ analysisOut.quarantine => analysisOut.isSpam

C9_Witness ==
    /\ analysisOut.done
    /\ analysisOut.score = 50
    /\ analysisOut.isSpam
    /\ ~analysisOut.quarantine

\* C10: for a message to an ACTIVE alias the delivery decision depends only
\* on the spam score: score >= 10 stores the message as SPAM, 7.5 <= score <
\* 10 as QUARANTINED, 5 <= score < 7.5 as SPAM, and in all three cases no
\* forward is dispatched; a forward is dispatched only when the score is
\* below 5.  Stated of the handler run on every message it can be handed,
\* from every store in which a request is accepted.
C10_DeliveryDecision ==
    served < MaxRequests =>
    \A email \in InboundEmails(DB), send \in SendOutcomes, id \in 1..Len(aliases) :
        (aliases[id].localPart = email.to /\ aliases[id].status = "ACTIVE")
        => LET r == Run(DB, NewWebhook(email), SendPlan(send), now)
               score == analyze(email).score
               stored == BagToSet(r.db.emails (-) emails)
           IN  /\ BagCardinality(r.db.emails) = BagCardinality(emails) + 1
               /\ Cardinality(stored) = 1
               /\ \A row \in stored :
                     /\ row.aliasId = id
                     /\ row.spamScore = score
                     /\ score >= 100 => row.status = "SPAM"
                     /\ (score >= 75 /\ score < 100) => row.status = "QUARANTINED"
                     /\ (score >= 50 /\ score < 75) => row.status = "SPAM"
                     /\ score < 50 => row.status \in {"DELIVERED", "FAILED"}
               /\ score >= 50 => r.db.outbox = outbox /\ ~r.l.result.forwarded
               /\ r.db.outbox # outbox => score < 50
               /\ score < 50 => BagCardinality(r.db.outbox) = BagCardinality(outbox) + 1

\* a message scoring 7.5 was quarantined and one scoring 5.0 stored as spam,
\* neither was forwarded
C10_Witness ==
    \E id \in 1..Len(aliases) :
        /\ BagIn([aliasId |-> id, messageId |-> "m1", spamScore |-> 75, isSpam |-> TRUE,
                  status |-> "QUARANTINED", forwardedTo |-> None, errorMessage |-> None,
                  read |-> FALSE],
                 emails)
        /\ BagIn([aliasId |-> id, messageId |-> "m1", spamScore |-> 50, isSpam |-> TRUE,
                  status |-> "SPAM", forwardedTo |-> None, errorMessage |-> None,
                  read |-> FALSE],
                 emails)
        /\ outbox = EmptyBag
        /\ aliases[id].status = "ACTIVE"

(***************************************************************************)
(* Replacement (SpecReplace)                                               *)
(***************************************************************************)
\* a step that served a replace request; reqs' holds it and its response
ReplaceServed == served' = served + 1 /\ reqs' # <<>> /\ reqs'[1].kind = "replace"

ReplaceSucceeded == ReplaceServed /\ reqs'[1].result.status = 200

\* the last request was a replace of an existing alias answered with `status`
LastReplace(status) ==
    /\ reqs # <<>>
    /\ reqs[1].kind = "replace"
    /\ reqs[1].result.status = status
    /\ reqs[1].input.oldAliasId \in 1..Len(aliases)

\* C11: a replace request naming an alias that is ACTIVE and not
\* breach-flagged is rejected (400) and changes nothing: no alias is created,
\* the old alias keeps its status and replacedById, no AuditLog is written.
C11_ActiveRejected ==
    [][ReplaceServed =>
         LET id == reqs'[1].input.oldAliasId
         IN  (/\ id \in 1..Len(aliases)
              /\ aliases[id].status = "ACTIVE"
              /\ ~aliases[id].breachDetected)
             => /\ reqs'[1].result.status = 400
                /\ Len(aliases') = Len(aliases)
                /\ aliases'[id].status = aliases[id].status
                /\ aliases'[id].replacedById = aliases[id].replacedById
                /\ auditLogs' = auditLogs
                /\ storeVars' = storeVars]_vars

C11_Witness ==
    /\ LastReplace(400)
    /\ aliases[reqs[1].input.oldAliasId].status = "ACTIVE"
    /\ ~aliases[reqs[1].input.oldAliasId].breachDetected
    /\ aliases[reqs[1].input.oldAliasId].replacedById = NoId

\* C12: a successful replacement of alias A creates an alias B with
\* B.replacesId = A, sets A.replacedById = B, and leaves every EmailMessage
\* (those of A included) unchanged.
C12_LinksAndMail ==
    [][ReplaceSucceeded =>
         LET A == reqs'[1].input.oldAliasId
             B == reqs'[1].result.newId
         IN  /\ B = Len(aliases) + 1
             /\ Len(aliases') = Len(aliases) + 1
             /\ aliases'[B].replacesId = A
             /\ aliases'[A].replacedById = B
             /\ emails' = emails]_vars

C12_Witness ==
    /\ LastReplace(200)
    /\ aliases[reqs[1].result.newId].replacesId = reqs[1].input.oldAliasId
    /\ aliases[reqs[1].input.oldAliasId].replacedById = reqs[1].result.newId
    /\ \E e \in BagToSet(emails) : e.aliasId = reqs[1].input.oldAliasId

\* C13: a successful replacement sets replacedById on the old alias and
\* nothing else; the status it found there stays when that is LEAKED or
\* KILLED, and becomes KILLED when it is ACTIVE (breach-flagged).
C13_OldAliasUpdate ==
    [][ReplaceSucceeded =>
         LET A == reqs'[1].input.oldAliasId
         IN  aliases'[A] =
                 [aliases[A] EXCEPT
                    !.replacedById = reqs'[1].result.newId,
                    !.status = IF @ = "ACTIVE" THEN "KILLED" ELSE @]]_vars

C13_Witness ==
    /\ LastReplace(200)
    /\ reqs[1].result.oldStatus = "ACTIVE"
    /\ aliases[reqs[1].input.oldAliasId].status = "KILLED"
    /\ aliases[reqs[1].input.oldAliasId].breachDetected

\* C13 as stated: replacement leaves the old alias's status exactly as it was
\* and only sets replacedById.
C13_StatusLeftAsIs ==
    [][ReplaceSucceeded =>
         LET A == reqs'[1].input.oldAliasId
         IN  aliases'[A] =
                 [aliases[A] EXCEPT !.replacedById = reqs'[1].result.newId]]_vars

\* the aliases created as replacements of alias a
Replacements(a) == {b \in 1..Len(aliases) : aliases[b].replacesId = a}

\* C14: the replacement links form chains: an alias is named as replacesId by
\* at most one alias, and A.replacedById = B exactly when B.replacesId = A.
C14_LinksFormChains ==
    \A a \in 1..Len(aliases) :
       /\ Cardinality(Replacements(a)) <= 1
       /\ \A b \in 1..Len(aliases) :
             aliases[a].replacedById = b <=> aliases[b].replacesId = a

\* one alias replaced twice: two aliases name it, it names only the later one
C14_Fork ==
    \E a \in 1..Len(aliases) : \E b, c \in Replacements(a) :
       /\ b < c
       /\ aliases[a].replacedById = c
       /\ aliases[b].replacedById = NoId

(***************************************************************************)
(* Racing status writers (SpecRace)                                        *)
(***************************************************************************)
\* the statuses alias id can end with when the two requests l1 and l2 run to
\* completion from store db, over every interleaving of their awaits
RECURSIVE FinalStatuses(_, _, _, _)
FinalStatuses(db, l1, l2, id) ==
    IF l1.pc = "done" /\ l2.pc = "done"
    THEN {db.aliases[id].status}
    ELSE UNION ({IF l1.pc = "done" THEN {}
                 ELSE UNION {FinalStatuses(Step(db, l1, ext, 0).db,
                                           Step(db, l1, ext, 0).l, l2, id) :
                                ext \in ExtChoices(l1)}}
                \cup
                {IF l2.pc = "done" THEN {}
                 ELSE UNION {FinalStatuses(Step(db, l2, ext, 0).db, l1,
                                           Step(db, l2, ext, 0).l, id) :
                                ext \in ExtChoices(l2)}})

\* request l has seen the decoy token and is about to write LEAKED
WritesLeak(l) == l.kind = "webhook" /\ l.pc = "leakUpdate"

\* request l has read the alias ACTIVE and will write KILLED for spam
WritesKill(l) ==
    /\ l.kind = "webhook"
    /\ l.pc \in {"leakUpdate", "spamIncrement"}
    /\ shouldBlock(l.score)
    /\ autoKillDue(l.alias)

\* C15: when a decoy-leak write and a spam-auto-kill write on one alias are
\* both under way (in two requests or in one), the alias ends with the same
\* status whatever the interleaving of the requests' steps.
C15_SameFinalStatus ==
    \A s, t \in Slots :
       (WritesLeak(reqs[s]) /\ WritesKill(reqs[t]))
       => Cardinality(FinalStatuses(DB, reqs[1], reqs[2], 1)) = 1

\* both writers have run and finished; the leak was written last
C15_LeakWins ==
    /\ \A s \in Slots : reqs[s].kind = "webhook" /\ reqs[s].pc = "done"
    /\ NumAuditsOf(auditLogs, 1, "LEAK_DETECTED") = 1
    /\ NumAuditsOf(auditLogs, 1, "ALIAS_AUTO_KILLED") = 1
    /\ aliases[1].status = "LEAKED"

(***************************************************************************)
(* Sweep selection (SpecSelect)                                            *)
(***************************************************************************)
\* the aliases a step wrote to
Touched == {id \in 1..Len(aliases) : aliases'[id] # aliases[id]}

\* C16: a sweep run selects only aliases stored as ACTIVE whose
\* lastBreachCheck is null or more than 24 hours old, at most 50 of them, and
\* processes no alias it did not select.
C16_SelectsDueActive ==
    [][(reqs # <<>> /\ reqs' # <<>>) =>
         /\ (reqs[1].pc = "select" /\ reqs'[1].pc # "done") =>
               /\ Len(reqs'[1].batch) <= 50
               /\ \A k \in 1..Len(reqs'[1].batch) :
                     LET alias == aliases[reqs'[1].batch[k].id]
                     IN  /\ alias.status = "ACTIVE"
                         /\ \/ alias.lastBreachCheck = Never
                            \/ now - alias.lastBreachCheck > HOURS_BETWEEN_CHECKS
         /\ \A id \in Touched : \E k \in 1..Len(reqs[1].batch) : reqs[1].batch[k].id = id
         /\ reqs'[1].pc = "done" =>
               Cardinality({reqs'[1].calls[k].id : k \in 1..Len(reqs'[1].calls)}) <= 50]_vars

\* a run that processed its 50 aliases, some of them rate limited, and left
\* further due aliases for later
C16_Witness ==
    /\ reqs # <<>>
    /\ reqs[1].pc = "done"
    /\ Cardinality({reqs[1].calls[k].id : k \in 1..Len(reqs[1].calls)}) = 50
    /\ reqs[1].result.results.errors > 0
    /\ Cardinality({id \in 1..Len(aliases) : aliases[id].lastBreachCheck = now}) >= 30
    /\ \E id \in 1..Len(aliases) :
          sweepDue(aliases[id], now) /\ \A k \in 1..Len(reqs[1].calls) : reqs[1].calls[k].id # id
    /\ \E id \in 1..Len(aliases) : aliases[id].status = "KILLED"
    /\ \E id \in 1..Len(aliases) :
          aliases[id].status = "ACTIVE" /\ now - aliases[id].lastBreachCheck = HOURS_BETWEEN_CHECKS

(***************************************************************************)
(* Sweep runs (SpecSweep, SpecSelect)                                      *)
(***************************************************************************)
\* a step of SpecSweep that ran a whole sweep; reqs' holds its record
SweepServed == served' = served + 1 /\ reqs' # <<>>

NumEvents(events, id) ==
    BagCardinality([r \in {x \in BagToSet(events) : x.aliasId = id} |-> events[r]])

\* the aliases a run looked up, and those whose lookup failed
LookedUp(calls) == {calls[k].id : k \in {n \in 1..Len(calls) : calls[n].call = "lookup"}}

FailedLookups(calls) ==
    {calls[k].id : k \in {n \in 1..Len(calls) :
                            calls[n].call = "lookup" /\ calls[n].failed}}

\* C17: when the breach service rate limits a lookup (429), the alias is not
\* marked checked (lastBreachCheck, status and breachDetected unchanged, no
\* BreachCheck, AuditLog or RelayEvent rows for it), the sweep waits before
\* its next external call, and every remaining alias is still processed.
C17_RateLimitedLookup ==
    [][SweepServed =>
         LET calls == reqs'[1].l.calls
         IN  /\ \A id \in FailedLookups(calls) :
                   /\ aliases'[id] = aliases[id]
                   /\ NumBreachChecks(breachChecks', id) = NumBreachChecks(breachChecks, id)
                   /\ NumAudits(auditLogs', id) = NumAudits(auditLogs, id)
                   /\ NumEvents(relayEvents', id) = NumEvents(relayEvents, id)
             /\ \A k \in 1..(Len(calls) - 1) :
                   (calls[k].call = "lookup" /\ calls[k].failed)
                   => calls[k + 1].call = "sleep"
             /\ DueIds(DB, now) \subseteq LookedUp(calls)]_vars

\* a rate-limited lookup directly followed by the lookup of the next alias
C17_NoWaitAfter429 ==
    /\ reqs # <<>>
    /\ \E k \in 1..(Len(reqs[1].l.calls) - 1) :
          LET calls == reqs[1].l.calls
          IN  /\ calls[k].call = "lookup" /\ calls[k].failed
              /\ calls[k + 1].call = "lookup" /\ ~calls[k + 1].failed
              /\ aliases[calls[k].id].lastBreachCheck = Never
              /\ aliases[calls[k + 1].id].lastBreachCheck = reqs[1].at

\* C18: within one sweep, any two consecutive calls to the breach service
\* (two lookups, a lookup and a decoy probe, a call after a failed call) are
\* separated by the fixed delay.
C18_DelayBetweenCalls ==
    reqs # <<>> =>
        \A k \in 1..(Len(reqs[1].l.calls) - 1) :
           reqs[1].l.calls[k].call # "sleep" => reqs[1].l.calls[k + 1].call = "sleep"

\* the lookup of a decoy-seeded alias directly followed by its paste probe
C18_LookupThenProbe ==
    /\ reqs # <<>>
    /\ \E k \in 1..(Len(reqs[1].l.calls) - 1) :
          LET calls == reqs[1].l.calls
          IN  /\ calls[k].call = "lookup" /\ ~calls[k].failed
              /\ calls[k + 1].call = "probe"
              /\ calls[k + 1].id = calls[k].id

\* the await a sweep in flight is about to run fails: the lookup throws or
\* the database rejects the write
Failing(l) ==
    /\ l.pc \notin {"select", "done"}
    /\ \/ l.pc = "lookup" /\ LargeLookup(l.batch[l.i].id).throws
       \/ l.pc \in StoreSteps /\ LargeStoreFails(l.batch[l.i].id, l.pc)

ErrorsOf(l) == IF l.pc = "done" THEN l.result.results.errors ELSE l.results.errors

\* C19: when processing one alias fails (the lookup or a database write
\* throws), the failure is caught: the error counter goes up by one, the failed
\* step writes nothing, the loop goes on to the next alias, and the run ends with a
\* success response.
C19_FailureIsolated ==
    [][(reqs # <<>> /\ reqs' # <<>>) =>
         /\ Failing(reqs[1]) =>
               /\ ErrorsOf(reqs'[1]) = ErrorsOf(reqs[1]) + 1
               /\ storeVars' = storeVars
               /\ IF reqs[1].i < Len(reqs[1].batch)
                  THEN /\ reqs'[1].pc = "lookup"
                       /\ reqs'[1].i = reqs[1].i + 1
                       /\ reqs'[1].batch = reqs[1].batch
                  ELSE reqs'[1].pc = "done"
         /\ ~Failing(reqs[1]) => ErrorsOf(reqs'[1]) = ErrorsOf(reqs[1])
         /\ reqs'[1].pc = "done" => reqs'[1].result.success]_vars

\* a finished run in which a lookup and a database write failed and an alias
\* later in the batch was checked
C19_Witness ==
    /\ reqs # <<>>
    /\ reqs[1].pc = "done"
    /\ reqs[1].result.success
    /\ reqs[1].result.results.errors > Cardinality(FailedLookups(reqs[1].calls))
    /\ \E k \in 1..Len(reqs[1].calls) : \E n \in (k + 1)..Len(reqs[1].calls) :
          /\ reqs[1].calls[k].call = "lookup" /\ reqs[1].calls[k].failed
          /\ reqs[1].calls[n].call = "lookup" /\ ~reqs[1].calls[n].failed
          /\ aliases[reqs[1].calls[n].id].lastBreachCheck = now

SweepingOn(l, id) ==
    /\ l.kind = "sweep"
    /\ l.pc \notin {"select", "done"}
    /\ l.batch[l.i].id = id

\* C21: two sweep runs never process the same alias at the same time, and a
\* breach finding gives an alias at most one ALIAS_AUTO_KILLED entry.
C21_SingleSweep ==
    \A id \in 1..Len(aliases) :
       /\ ~(SweepingOn(reqs[1], id) /\ SweepingOn(reqs[2], id))
       /\ NumAuditsFor(auditLogs, id, "Data breach detected") <= 1

\* two runs found the same breach of the same alias: its BreachCheck row and
\* its ALIAS_AUTO_KILLED entry exist twice
C21_DoubleKill ==
    /\ reqs[1].kind = "sweep" /\ reqs[1].pc = "done"
    /\ reqs[2].kind = "sweep" /\ reqs[2].pc = "done"
    /\ NumAuditsFor(auditLogs, 1, "Data breach detected") = 2
    /\ NumBreachChecks(breachChecks, 1) = 2
    /\ aliases[1].status = "LEAKED"

(***************************************************************************)
(* Inbound deliveries (SpecMail)                                           *)
(***************************************************************************)
\* a step that served an inbound message; reqs' holds it and its response
MailServed == served' = served + 1 /\ reqs' # <<>> /\ reqs'[1].kind = "webhook"

\* the EmailMessage rows and provider sends a step added
StoredMail == BagToSet(emails' (-) emails)

NewSends == BagToSet(outbox' (-) outbox)

\* the alias is ACTIVE, the message is not spam and quotes no decoy token
ForwardEligible(db, email) ==
    LET id == findAliasByAddress(db, email.to)
    IN  /\ id # NoId
        /\ db.aliases[id].status = "ACTIVE"
        /\ db.aliases[id].forwardTo # None
        /\ ~analyze(email).isSpam
        /\ ~decoyMatch(db.aliases[id], email)

\* C22: for a forward-eligible message the provider is called exactly once;
\* if the send succeeds the EmailMessage ends DELIVERED with forwardedTo set
\* and one FORWARDED RelayEvent is written; if it fails or throws the
\* EmailMessage ends FAILED with the error recorded and no FORWARDED event.
\* No message makes more than one provider call.
C22_ForwardOutcome ==
    [][MailServed =>
         LET email == reqs'[1].input
             id == findAliasByAddress(DB, email.to)
         IN  /\ BagCardinality(outbox') <= BagCardinality(outbox) + 1
             /\ ForwardEligible(DB, email) =>
                   /\ BagCardinality(outbox') = BagCardinality(outbox) + 1
                   /\ BagCardinality(emails') = BagCardinality(emails) + 1
                   /\ \A send \in NewSends : \A m \in StoredMail :
                         /\ send.to = aliases[id].forwardTo
                         /\ send.messageId = email.messageId
                         /\ m.aliasId = id /\ m.messageId = email.messageId
                         /\ IF send.outcome = "sent"
                            THEN /\ m.status = "DELIVERED"
                                 /\ m.forwardedTo = aliases[id].forwardTo
                                 /\ m.errorMessage = None
                                 /\ NumEventsOf(relayEvents', id, "FORWARDED")
                                       = NumEventsOf(relayEvents, id, "FORWARDED") + 1
                            ELSE /\ m.status = "FAILED"
                                 /\ m.forwardedTo = None
                                 /\ m.errorMessage # None
                                 /\ NumEventsOf(relayEvents', id, "FORWARDED")
                                       = NumEventsOf(relayEvents, id, "FORWARDED")]_vars

\* the provider returned a failure for a clean message: one send, the
\* message stored FAILED with the provider's error, nothing FORWARDED
C22_Witness ==
    /\ reqs # <<>>
    /\ reqs[1].kind = "webhook"
    /\ reqs[1].result.status = "failed"
    /\ BagCardinality(outbox) = 1
    /\ \E send \in BagToSet(outbox) : send.outcome = "failed"
    /\ \E m \in BagToSet(emails) :
          m.status = "FAILED" /\ m.errorMessage = "provider_error" /\ m.spamScore = 0
    /\ NumEventsOf(relayEvents, 1, "FORWARDED") = 0

\* C23: a message whose recipient matches no alias is rejected with reason
\* 'Alias not found' and changes nothing in the store.
C23_UnknownRecipient ==
    [][MailServed =>
         ((\A id \in 1..Len(aliases) : aliases[id].localPart # reqs'[1].input.to)
          => /\ reqs'[1].result.status = "rejected"
             /\ reqs'[1].result.reason = "Alias not found"
             /\ storeVars' = storeVars)]_vars

C23_Witness ==
    /\ reqs # <<>>
    /\ reqs[1].kind = "webhook"
    /\ reqs[1].result.status = "rejected"
    /\ \A id \in 1..Len(aliases) : aliases[id].localPart # reqs[1].input.to
    /\ Len(aliases) = 1
    /\ served = 1
    /\ BagCardinality(emails) = 0
    /\ BagCardinality(relayEvents) = 0

\* the alias has a stored message with this messageId
SeenBefore(db, email) ==
    \E m \in BagToSet(db.emails) :
       m.aliasId = findAliasByAddress(db, email.to) /\ m.messageId = email.messageId

\* C26: a redelivered message (same messageId, alias still ACTIVE) is
\* processed as a new one: a second EmailMessage is stored, a block-level
\* message increments spamCount again, a clean one is sent again.
C26_NoDeduplication ==
    [][MailServed =>
         LET email == reqs'[1].input
             id == findAliasByAddress(DB, email.to)
         IN  (id # NoId /\ aliases[id].status = "ACTIVE" /\ SeenBefore(DB, email))
             => /\ BagCardinality(emails') = BagCardinality(emails) + 1
                /\ \A m \in StoredMail : m.messageId = email.messageId
                /\ shouldBlock(analyze(email).score)
                      => aliases'[id].spamCount = aliases[id].spamCount + 1
                /\ ForwardEligible(DB, email)
                      => BagCardinality(outbox') = BagCardinality(outbox) + 1]_vars

\* one clean message delivered twice: stored twice and sent twice
C26_Witness ==
    /\ served = 2
    /\ \E m \in BagToSet(emails) : m.status = "DELIVERED" /\ emails[m] = 2
    /\ \E send \in BagToSet(outbox) : send.outcome = "sent" /\ outbox[send] = 2
    /\ aliases[1].status = "ACTIVE"

\* C29: for every stored message, the status in the webhook response is the
\* status of its EmailMessage row when processing ends.
C29_ResponseMatchesRecord ==
    [][MailServed =>
         \A m \in StoredMail : reqs'[1].result.status = toLowerCaseStatus(m.status)]_vars

\* the provider send threw: the row says FAILED, the response says pending
C29_PendingButFailed ==
    /\ reqs # <<>>
    /\ reqs[1].kind = "webhook"
    /\ reqs[1].result.status = "pending"
    /\ \E m \in BagToSet(emails) :
          m.status = "FAILED" /\ m.errorMessage = "exception_message"
    /\ \A m \in BagToSet(emails) : m.status # "PENDING"

(***************************************************************************)
(* Records over time (SpecLedger)                                          *)
(***************************************************************************)
\* C24: RelayEvent, AuditLog and BreachCheck are append-only: no operation
\* (webhook, kill, create, replace, sweep, inbox) removes or changes a row.
C24_AppendOnly ==
    [][/\ relayEvents \sqsubseteq relayEvents'
       /\ auditLogs \sqsubseteq auditLogs'
       /\ breachChecks \sqsubseteq breachChecks']_vars

\* two operations on top of earlier history, the last one deleting the only
\* stored message: all three logs still hold their rows
C24_Witness ==
    /\ served = 2
    /\ reqs[1].kind = "inboxDelete"
    /\ BagCardinality(emails) = 0
    /\ BagCardinality(breachChecks) >= 2
    /\ BagCardinality(auditLogs) >= 2
    /\ BagCardinality(relayEvents) >= 3

\* the number of writes one processing pass makes to its EmailMessage after
\* creating it
RECURSIVE EmailUpdates(_, _, _)
EmailUpdates(db, l, plan) ==
    IF l.pc = "done" THEN 0
    ELSE LET r == Step(db, l, ExtAt(l, plan), 0)
         IN  (IF l.pc # "emailCreate" /\ r.db.emails # db.emails THEN 1 ELSE 0)
             + EmailUpdates(r.db, r.l, plan)

\* a step that served an operation; reqs' holds it
LedgerServed == served' = served + 1 /\ reqs' # <<>>

\* rows m and n differ at most in the fields of `fields`
SameExcept(m, n, fields) == \A f \in (DOMAIN m) \ fields : m[f] = n[f]

\* the stored rows are left alone, or one of them has its read flag changed
OnlyReadChanged ==
    \/ emails' = emails
    \/ \E m \in BagToSet(emails), n \in BagToSet(emails') :
          /\ emails' = (emails (-) Row(m)) (+) Row(n)
          /\ SameExcept(m, n, {"read"})

\* what a pass does to the EmailMessage table: it adds its own row, as
\* created up to status and forwarding outcome, and leaves the others
PassFrame(email) ==
    LET id == findAliasByAddress(DB, email.to)
    IN  /\ emails \sqsubseteq emails'
        /\ \A m \in StoredMail :
              SameExcept(m, [aliasId |-> id, messageId |-> email.messageId,
                             spamScore |-> analyze(email).score,
                             isSpam |-> analyze(email).isSpam,
                             status |-> "PENDING", forwardedTo |-> None,
                             errorMessage |-> None, read |-> FALSE],
                         {"status", "forwardedTo", "errorMessage"})

\* C27: a processing pass that calls the provider writes the status and
\* forwarding outcome of its EmailMessage exactly once after creating it, and
\* a pass that does not never writes to it again; no other field of a stored
\* message changes afterwards except the read flag.
C27_WrittenOncePerPass ==
    [][LedgerServed =>
         /\ reqs'[1].kind = "webhook" =>
               /\ PassFrame(reqs'[1].input)
               /\ \A send \in SendOutcomes :
                     LET l == NewWebhook(reqs'[1].input)
                         r == Run(DB, l, SendPlan(send), now)
                     IN  EmailUpdates(DB, l, SendPlan(send))
                            = IF r.db.outbox # outbox THEN 1 ELSE 0
         /\ reqs'[1].kind \in {"create", "kill", "replace", "sweep"} => emails' = emails
         /\ reqs'[1].kind \in {"inboxGet", "inboxPatch"} => OnlyReadChanged]_vars

\* a stored message, delivered and since marked read, next to a spam message
\* that was stored and never written again
C27_Witness ==
    /\ served = 2
    /\ reqs[1].kind = "inboxGet"
    /\ \E m \in BagToSet(emails) : m.status = "DELIVERED" /\ m.read
    /\ \E m \in BagToSet(emails) : m.status = "SPAM" /\ ~m.read

\* C27 as stated: every pass that stores an EmailMessage writes its status
\* and forwarding outcome exactly once after creation.
C27_ExactlyOnce ==
    [][(LedgerServed /\ reqs'[1].kind = "webhook" /\ StoredMail # {}) =>
         \A send \in SendOutcomes :
            EmailUpdates(DB, NewWebhook(reqs'[1].input), SendPlan(send)) = 1]_vars

(***************************************************************************)
(* Failing audit writes (SpecAudit)                                        *)
(***************************************************************************)
\* C25: an AuditLog write that fails does not fail the operation: a kill,
\* replace, inbound message or sweep served while audit writes fail answers
\* as it would have, and makes the same changes to every other table.
C25_AuditNeverFails ==
    [][(served' = served + 1 /\ reqs' # <<>>) =>
         LET op == reqs'[1]
             ok == Run(DB, op.req, op.plan, now)
         IN  /\ op.l.result = ok.l.result
             /\ aliases' = ok.db.aliases
             /\ emails' = ok.db.emails
             /\ relayEvents' = ok.db.relayEvents
             /\ breachChecks' = ok.db.breachChecks
             /\ outbox' = ok.db.outbox]_vars

\* a kill that set the alias KILLED and wrote its event, and answered 500
C25_KillReports500 ==
    /\ reqs # <<>>
    /\ reqs[1].req.kind = "kill"
    /\ reqs[1].l.result.status = 500
    /\ aliases[reqs[1].req.input].status = "KILLED"
    /\ NumEventsFrom(relayEvents, reqs[1].req.input, {"alias_killed"}) = 1
    /\ NumAuditsOf(auditLogs, reqs[1].req.input, "alias.killed") = 0

(***************************************************************************)
(* Sweep writes racing other requests (SpecConc)                           *)
(***************************************************************************)
\* the sweep in slot s takes the step that sets its alias LEAKED
SweepWritesLeak(s) ==
    /\ reqs[s].kind = "sweep"
    /\ reqs[s].pc \in {"breachLeak", "decoyLeak"}
    /\ reqs'[s] # reqs[s]

\* C28: the sweep sets an alias LEAKED only if the alias is ACTIVE at the
\* moment of that write; an alias that left ACTIVE after the batch was
\* selected is not overwritten and gets no ALIAS_AUTO_KILLED entry.
C28_WritesOnlyActive ==
    [][\A s \in Slots :
          SweepWritesLeak(s) =>
             aliases[reqs[s].batch[reqs[s].i].id].status = "ACTIVE"]_vars

\* only a kill and a sweep ran; the alias the user killed ends LEAKED with an
\* ALIAS_AUTO_KILLED entry next to its alias.killed entry
C28_KilledThenLeaked ==
    /\ served = 2
    /\ \E s, t \in Slots :
          /\ reqs[s].kind = "kill" /\ reqs[s].pc = "done"
          /\ reqs[s].result.status = 200
          /\ reqs[t].kind = "sweep" /\ reqs[t].pc = "done"
    /\ aliases[1].status = "LEAKED"
    /\ NumAuditsOf(auditLogs, 1, "alias.killed") = 1
    /\ NumAuditsFor(auditLogs, 1, "Data breach detected") = 1

(***************************************************************************)
(* Rate-limit windows (SpecRateLimit)                                      *)
(***************************************************************************)
NoWindow == [open |-> FALSE, resetAt |-> 0, accepted |-> 0]

\* The window of an identifier after the first n calls of the log, read off
\* the log alone: a call opens a window when the identifier has none or the
\* call is made after the window's resetAt, and the window then ends at the
\* call's time plus its windowMs; accepted counts the calls of the window
\* that did not throw.
RECURSIVE WindowAfter(_, _, _)
WindowAfter(log, identifier, n) ==
    IF n = 0 THEN NoWindow
    ELSE LET w == WindowAfter(log, identifier, n - 1)
             c == log[n]
         IN  IF c.identifier # identifier THEN w
             ELSE IF ~w.open \/ c.at > w.resetAt
             THEN [open |-> TRUE, resetAt |-> c.at + c.windowMs,
                   accepted |-> IF c.threw THEN 0 ELSE 1]
             ELSE [w EXCEPT !.accepted = IF c.threw THEN @ ELSE @ + 1]

\* C30: in every window of every identifier at most limit calls are accepted
\* from the opening call to resetAt; a further call in the window throws
\* RateLimitError and leaves the stored count unchanged; the first call after
\* resetAt opens a new window with count 1.
C30_WindowAdmitsLimit ==
    [][Len(reqs') = Len(reqs) + 1 =>
         LET c == reqs'[Len(reqs')]
             before == WindowAfter(reqs, c.identifier, Len(reqs))
             after == WindowAfter(reqs', c.identifier, Len(reqs'))
         IN  IF ~before.open \/ c.at > before.resetAt
             THEN /\ ~c.threw
                  /\ rateLimits'[c.identifier] =
                        [count |-> 1, resetAt |-> c.at + c.windowMs]
             ELSE /\ ~c.threw => after.accepted <= c.limit
                  /\ before.accepted >= c.limit =>
                        /\ c.threw
                        /\ c.identifier \in DOMAIN rateLimits
                        /\ rateLimits'[c.identifier] = rateLimits[c.identifier]
                  /\ c.identifier \in DOMAIN rateLimits'
                  /\ rateLimits'[c.identifier].count = after.accepted]_vars

\* limit 1: the opening call accepted, the next call of the window thrown at
\* resetAt itself, and the call after resetAt accepted with count 1
C30_Witness ==
    /\ Len(reqs) = 3
    /\ \A i \in 1..3 : reqs[i].identifier = "ip1" /\ reqs[i].limit = 1
    /\ ~reqs[1].threw /\ reqs[2].threw /\ ~reqs[3].threw
    /\ reqs[2].at = reqs[1].at + reqs[1].windowMs
    /\ reqs[3].at > reqs[1].at + reqs[1].windowMs
    /\ rateLimits["ip1"] = [count |-> 1, resetAt |-> reqs[3].at + reqs[3].windowMs]
====
